---- MODULE Spec2Model ----
(***************************************************************************)
(* Matching engine of the job-matching platform: the skill canonicalizer   *)
(* (services/matching/skill_mapper.py), the compatibility scorer           *)
(* (services/matching/match_service.py) and the AI delegation state        *)
(* machine (services/ai/claude_service.py).                                *)
(*                                                                         *)
(* Conventions.  A Python str is a sequence of one-character strings, so   *)
(* that lower(), strip(), split() and the `in` substring test are computed *)
(* as the code computes them.  A Python dict is a function whose DOMAIN is *)
(* the set of keys present.  A float is an exact rational <<num, den>>     *)
(* with den > 0; reported scores are integers in thousandths of a point    *)
(* (75 points = 75000), so round(x, 2) yields multiples of 10.             *)
(***************************************************************************)
EXTENDS Integers, Sequences, FiniteSets, TLC

VARIABLES
  \* ---- one caller of MatchService.calculate_match and the delegate it reaches
  pc,            \* "idle" | "sending" (in ClaudeService._send_request) | "internal" | "done"
  client,        \* ClaudeService.client is set (library present and API key given)
  cur_resume,    \* the request's resume_data dict
  cur_job,       \* the request's job_data dict
  use_claude,    \* the request's use_claude argument
  send_attempt,  \* _send_request's loop variable `attempt`
  events,        \* the delegate calls of this request: [kind, wait] per call
  cur_response,  \* the text _send_request returned, <<>> while there is none
  returned,      \* the dict calculate_match returned, <<>> before it returns
  raised,        \* an exception left calculate_match
  path,          \* "none" | "ai" | "internal": which branch built the result
  \* ---- SkillMapper instance and a caller normalising a skill twice
  skill_map,     \* SkillMapper.skill_map: insertion-ordered <<alias, canonical>> pairs
  sk_pc,         \* "idle" | "once" | "twice"
  sk_in,         \* the raw skill string handed to normalize_skill
  sk_once,       \* normalize_skill(sk_in)
  sk_twice,      \* normalize_skill(sk_once)
  \* ---- the shared SkillMapper: callers of add_skill_mapping and one reader thread
  self_categories, \* SkillMapper.categories: <<category, set of canonical names>> pairs
  adds,          \* number of add_skill_mapping calls made so far
  rd_pc,         \* the reader in normalize_skill: "idle" | "iterating" | "done"
  rd_in,         \* its argument `skill`
  rd_map0,       \* skill_map as it was when the reader's call began
  rd_adds0,      \* adds when the reader's call began
  rd_iter,       \* items the dict iterator has handed out
  rd_used,       \* the dict size the iterator recorded when it was created
  rd_best,       \* [score, match]: best_score and best_match
  rd_out,        \* [status, value]: what the reader's call returned or raised
  \* ---- a caller of calculate_match(resume, job, use_claude=False), twice in a row
  q_pc,          \* "idle" | "first" | "again" (same inputs) | "more" (a skill added)
  q_resume,      \* resume_data of the first call
  q_job,         \* job_data of both calls
  q_added,       \* the job skill added to the resume for the second call, else <<>>
  q_first,       \* [now, out]: the clock at the first call and the record it returned
  q_second,      \* [now, out]: the same of the second call
  \* ---- one caller of JobAnalyzer.analyze_job_batch
  b_pc,          \* "idle" | "loop" (in the for loop) | "done"
  b_in,          \* job_list as it was passed
  b_list,        \* job_list now: analyze writes 'error' into the caller's dicts
  b_use_claude,  \* the use_claude argument
  b_service,     \* the analyzer was built with a claude_service
  b_calls,       \* per posting analysed: [answer, now], what the delegate and the clock gave
  b_out,         \* analyzed_jobs
  \* ---- one caller of JobAnalyzer._extract_job_data on a description with a list
  e_pc,          \* "idle" | "done"
  e_description, \* the description passed
  e_lines,       \* the texts of the bulleted lines of its requirements block
  e_extracted,   \* extracted_data, the dict returned
  \* ---- one caller of MatchService.generate_detailed_recommendations
  g_pc,          \* "idle" | "sending" (in ClaudeService._send_request) | "done"
  g_service,     \* MatchService.claude_service is set
  g_client,      \* that service's client is set
  g_resume,      \* resume_data
  g_job,         \* job_data
  g_attempt,     \* _send_request's loop variable `attempt`
  g_path,        \* "none" | "unavailable" | "failed" | "ai": how the call ended
  g_returned,    \* the dict returned, <<>> before the call returns
  \* ---- the matches table and the workers that write to it
  db_matches,    \* the rows of table `matches`, a row's id being its position
  w_pc,          \* per worker: "idle" | "checked" (after the existence query) | "done"
  w_call,        \* per worker: [op, user_id, job_id, resume_id, score, match_details]
  w_existing,    \* per worker: the id get_match_by_user_and_job found, 0 for None
  w_out,         \* per worker: [status, value] of the call, <<>> before it ends
  \* ---- one caller of ResumeAnalyzer._split_into_sections
  s_pc,          \* "idle" | "loop" (in the for loop) | "done"
  s_text,        \* the text passed
  s_lines,       \* text.split('\n')
  s_next,        \* the position in s_lines of the line the loop takes next
  s_current,     \* current_section, "" for None
  s_content,     \* section_content
  s_sections     \* sections, the dict returned

match_vars == <<pc, client, cur_resume, cur_job, use_claude, send_attempt, events,
                cur_response, returned, raised, path>>

reader_vars == <<rd_pc, rd_in, rd_map0, rd_adds0, rd_iter, rd_used, rd_best, rd_out>>

shared_vars == <<self_categories, adds, reader_vars>>

score_vars == <<q_pc, q_resume, q_job, q_added, q_first, q_second>>

batch_vars == <<b_pc, b_in, b_list, b_use_claude, b_service, b_calls, b_out>>

req_vars == <<e_pc, e_description, e_lines, e_extracted>>

rec_vars == <<g_pc, g_service, g_client, g_resume, g_job, g_attempt, g_path, g_returned>>

repo_vars == <<db_matches, w_pc, w_call, w_existing, w_out>>

seg_vars == <<s_pc, s_text, s_lines, s_next, s_current, s_content, s_sections>>

ext_vars == <<req_vars, rec_vars, repo_vars, seg_vars>>

core_vars ==
  <<skill_map, sk_pc, sk_in, sk_once, sk_twice, shared_vars, score_vars, batch_vars>>

skill_vars == <<core_vars, ext_vars>>

vars == <<match_vars, skill_vars>>

----------------------------------------------------------------------------
(* Python str operations                                                   *)

UpperAlphabet ==
  <<"A","B","C","D","E","F","G","H","I","J","K","L","M","N","O","P","Q","R",
    "S","T","U","V","W","X","Y","Z","Á","Ã","Ç","É","Ê","Í","Ó","Õ","Ú">>

LowerAlphabet ==
  <<"a","b","c","d","e","f","g","h","i","j","k","l","m","n","o","p","q","r",
    "s","t","u","v","w","x","y","z","á","ã","ç","é","ê","í","ó","õ","ú">>

\* str.lower() on one character
lower_char(c) ==
  IF \E i \in 1..Len(UpperAlphabet) : UpperAlphabet[i] = c
  THEN LowerAlphabet[CHOOSE i \in 1..Len(UpperAlphabet) : UpperAlphabet[i] = c]
  ELSE c

\* str.upper() on one character
upper_char(c) ==
  IF \E i \in 1..Len(LowerAlphabet) : LowerAlphabet[i] = c
  THEN UpperAlphabet[CHOOSE i \in 1..Len(LowerAlphabet) : LowerAlphabet[i] = c]
  ELSE c

\* s.lower()
str_lower(s) == [i \in 1..Len(s) |-> lower_char(s[i])]

is_space(c) == c = " "

\* s.strip()
str_strip(s) ==
  LET keep == {i \in 1..Len(s) : ~is_space(s[i])}
  IN  IF keep = {} THEN <<>>
      ELSE SubSeq(s, CHOOSE i \in keep : \A j \in keep : i <= j,
                     CHOOSE i \in keep : \A j \in keep : i >= j)

\* needle in hay  (Python substring test; the empty string is in every string)
str_in(needle, hay) ==
  \E i \in 0..(Len(hay) - Len(needle)) :
     \A k \in 1..Len(needle) : hay[i + k] = needle[k]

\* skill[0].upper() + skill[1:]
capitalize_first(s) ==
  IF s = <<>> THEN <<>> ELSE <<upper_char(s[1])>> \o SubSeq(s, 2, Len(s))

----------------------------------------------------------------------------
(* Exact rationals standing for Python floats                              *)

RECURSIVE gcd(_, _)
gcd(a, b) == IF b = 0 THEN a ELSE gcd(b, a % b)

abs(n) == IF n < 0 THEN -n ELSE n

rat(n, d) ==
  LET g == gcd(abs(n), d) IN IF g = 0 THEN <<0, 1>> ELSE <<n \div g, d \div g>>

r_int(n) == <<n, 1>>
r_add(a, b) == rat(a[1] * b[2] + b[1] * a[2], a[2] * b[2])
r_sub(a, b) == rat(a[1] * b[2] - b[1] * a[2], a[2] * b[2])
r_mul(a, b) == rat(a[1] * b[1], a[2] * b[2])
r_lt(a, b) == a[1] * b[2] < b[1] * a[2]
r_le(a, b) == a[1] * b[2] <= b[1] * a[2]
r_min(a, b) == IF r_lt(b, a) THEN b ELSE a
r_max(a, b) == IF r_lt(a, b) THEN b ELSE a

----------------------------------------------------------------------------
(* difflib.SequenceMatcher(None, a, b).ratio(), as normalize_skill uses it *)

\* length of the common run of a[i..] and b[j..]
RECURSIVE common_run(_, _, _, _)
common_run(a, i, b, j) ==
  IF i > Len(a) \/ j > Len(b) \/ a[i] # b[j] THEN 0
  ELSE 1 + common_run(a, i + 1, b, j + 1)

\* find_longest_match: the longest block, of those the one starting earliest
\* in a, and of those the one starting earliest in b
find_longest_match(a, b) ==
  LET cand == {<<i, j, common_run(a, i, b, j)>> : i \in 1..Len(a), j \in 1..Len(b)}
      better(x, y) == \/ x[3] > y[3]
                      \/ x[3] = y[3] /\ x[1] < y[1]
                      \/ x[3] = y[3] /\ x[1] = y[1] /\ x[2] <= y[2]
  IN  IF cand = {} THEN <<1, 1, 0>>
      ELSE CHOOSE x \in cand : \A y \in cand : better(x, y)

\* get_matching_blocks: total size of the blocks found by recursive splitting
RECURSIVE matching_size(_, _)
matching_size(a, b) ==
  IF a = <<>> \/ b = <<>> THEN 0
  ELSE LET around(m) ==
             IF m[3] = 0 THEN 0
             ELSE m[3]
                  + matching_size(SubSeq(a, 1, m[1] - 1), SubSeq(b, 1, m[2] - 1))
                  + matching_size(SubSeq(a, m[1] + m[3], Len(a)),
                                  SubSeq(b, m[2] + m[3], Len(b)))
       IN  around(find_longest_match(a, b))

\* ratio() = 2.0 * matches / (len(a) + len(b)), 1.0 for two empty strings
sequence_ratio(a, b) ==
  IF Len(a) + Len(b) = 0 THEN <<1, 1>>
  ELSE rat(2 * matching_size(a, b), Len(a) + Len(b))

\* SkillMapper._load_default_mappings: self.skill_map, in insertion order
DefaultSkillMap ==
  << <<<<"j","a","v","a","s","c","r","i","p","t">>, <<"J","a","v","a","S","c","r","i","p","t">>>>,
     <<<<"j","s">>, <<"J","a","v","a","S","c","r","i","p","t">>>>,
     <<<<"t","y","p","e","s","c","r","i","p","t">>, <<"T","y","p","e","S","c","r","i","p","t">>>>,
     <<<<"t","s">>, <<"T","y","p","e","S","c","r","i","p","t">>>>,
     <<<<"p","y","t","h","o","n">>, <<"P","y","t","h","o","n">>>>,
     <<<<"p","y">>, <<"P","y","t","h","o","n">>>>,
     <<<<"j","a","v","a">>, <<"J","a","v","a">>>>,
     <<<<"c","#">>, <<"C","#">>>>,
     <<<<"c","s","h","a","r","p">>, <<"C","#">>>>,
     <<<<"c","+","+">>, <<"C","+","+">>>>,
     <<<<"c","p","p">>, <<"C","+","+">>>>,
     <<<<"p","h","p">>, <<"P","H","P">>>>,
     <<<<"r","u","b","y">>, <<"R","u","b","y">>>>,
     <<<<"g","o">>, <<"G","o">>>>,
     <<<<"g","o","l","a","n","g">>, <<"G","o">>>>,
     <<<<"s","w","i","f","t">>, <<"S","w","i","f","t">>>>,
     <<<<"k","o","t","l","i","n">>, <<"K","o","t","l","i","n">>>>,
     <<<<"r","u","s","t">>, <<"R","u","s","t">>>>,
     <<<<"s","c","a","l","a">>, <<"S","c","a","l","a">>>>,
     <<<<"p","e","r","l">>, <<"P","e","r","l">>>>,
     <<<<"r">>, <<"R"," ","(","l","a","n","g","u","a","g","e",")">>>>,
     <<<<"r","e","a","c","t">>, <<"R","e","a","c","t">>>>,
     <<<<"r","e","a","c","t","j","s">>, <<"R","e","a","c","t">>>>,
     <<<<"r","e","a","c","t",".","j","s">>, <<"R","e","a","c","t">>>>,
     <<<<"a","n","g","u","l","a","r">>, <<"A","n","g","u","l","a","r">>>>,
     <<<<"a","n","g","u","l","a","r","j","s">>, <<"A","n","g","u","l","a","r","J","S">>>>,
     <<<<"a","n","g","u","l","a","r",".","j","s">>, <<"A","n","g","u","l","a","r","J","S">>>>,
     <<<<"v","u","e">>, <<"V","u","e",".","j","s">>>>,
     <<<<"v","u","e","j","s">>, <<"V","u","e",".","j","s">>>>,
     <<<<"v","u","e",".","j","s">>, <<"V","u","e",".","j","s">>>>,
     <<<<"n","o","d","e">>, <<"N","o","d","e",".","j","s">>>>,
     <<<<"n","o","d","e","j","s">>, <<"N","o","d","e",".","j","s">>>>,
     <<<<"n","o","d","e",".","j","s">>, <<"N","o","d","e",".","j","s">>>>,
     <<<<"e","x","p","r","e","s","s">>, <<"E","x","p","r","e","s","s",".","j","s">>>>,
     <<<<"e","x","p","r","e","s","s","j","s">>, <<"E","x","p","r","e","s","s",".","j","s">>>>,
     <<<<"d","j","a","n","g","o">>, <<"D","j","a","n","g","o">>>>,
     <<<<"f","l","a","s","k">>, <<"F","l","a","s","k">>>>,
     <<<<"s","p","r","i","n","g">>, <<"S","p","r","i","n","g">>>>,
     <<<<"s","p","r","i","n","g"," ","b","o","o","t">>, <<"S","p","r","i","n","g"," ","B","o","o","t">>>>,
     <<<<".","n","e","t">>, <<".","N","E","T">>>>,
     <<<<"d","o","t","n","e","t">>, <<".","N","E","T">>>>,
     <<<<"l","a","r","a","v","e","l">>, <<"L","a","r","a","v","e","l">>>>,
     <<<<"r","a","i","l","s">>, <<"R","u","b","y"," ","o","n"," ","R","a","i","l","s">>>>,
     <<<<"r","o","r">>, <<"R","u","b","y"," ","o","n"," ","R","a","i","l","s">>>>,
     <<<<"r","u","b","y"," ","o","n"," ","r","a","i","l","s">>, <<"R","u","b","y"," ","o","n"," ","R","a","i","l","s">>>>,
     <<<<"s","q","l">>, <<"S","Q","L">>>>,
     <<<<"n","o","s","q","l">>, <<"N","o","S","Q","L">>>>,
     <<<<"p","o","s","t","g","r","e","s","q","l">>, <<"P","o","s","t","g","r","e","S","Q","L">>>>,
     <<<<"p","o","s","t","g","r","e","s">>, <<"P","o","s","t","g","r","e","S","Q","L">>>>,
     <<<<"m","y","s","q","l">>, <<"M","y","S","Q","L">>>>,
     <<<<"m","o","n","g","o">>, <<"M","o","n","g","o","D","B">>>>,
     <<<<"m","o","n","g","o","d","b">>, <<"M","o","n","g","o","D","B">>>>,
     <<<<"o","r","a","c","l","e">>, <<"O","r","a","c","l","e">>>>,
     <<<<"s","q","l","s","e","r","v","e","r">>, <<"S","Q","L"," ","S","e","r","v","e","r">>>>,
     <<<<"s","q","l"," ","s","e","r","v","e","r">>, <<"S","Q","L"," ","S","e","r","v","e","r">>>>,
     <<<<"s","q","l","i","t","e">>, <<"S","Q","L","i","t","e">>>>,
     <<<<"r","e","d","i","s">>, <<"R","e","d","i","s">>>>,
     <<<<"e","l","a","s","t","i","c","s","e","a","r","c","h">>, <<"E","l","a","s","t","i","c","s","e","a","r","c","h">>>>,
     <<<<"e","l","a","s","t","i","c"," ","s","e","a","r","c","h">>, <<"E","l","a","s","t","i","c","s","e","a","r","c","h">>>>,
     <<<<"d","y","n","a","m","o">>, <<"D","y","n","a","m","o","D","B">>>>,
     <<<<"d","y","n","a","m","o","d","b">>, <<"D","y","n","a","m","o","D","B">>>>,
     <<<<"a","w","s">>, <<"A","W","S">>>>,
     <<<<"a","m","a","z","o","n"," ","w","e","b"," ","s","e","r","v","i","c","e","s">>, <<"A","W","S">>>>,
     <<<<"a","z","u","r","e">>, <<"A","z","u","r","e">>>>,
     <<<<"m","i","c","r","o","s","o","f","t"," ","a","z","u","r","e">>, <<"A","z","u","r","e">>>>,
     <<<<"g","c","p">>, <<"G","o","o","g","l","e"," ","C","l","o","u","d">>>>,
     <<<<"g","o","o","g","l","e"," ","c","l","o","u","d">>, <<"G","o","o","g","l","e"," ","C","l","o","u","d">>>>,
     <<<<"f","i","r","e","b","a","s","e">>, <<"F","i","r","e","b","a","s","e">>>>,
     <<<<"h","e","r","o","k","u">>, <<"H","e","r","o","k","u">>>>,
     <<<<"d","o","c","k","e","r">>, <<"D","o","c","k","e","r">>>>,
     <<<<"k","u","b","e","r","n","e","t","e","s">>, <<"K","u","b","e","r","n","e","t","e","s">>>>,
     <<<<"k","8","s">>, <<"K","u","b","e","r","n","e","t","e","s">>>>,
     <<<<"j","e","n","k","i","n","s">>, <<"J","e","n","k","i","n","s">>>>,
     <<<<"g","i","t">>, <<"G","i","t">>>>,
     <<<<"g","i","t","h","u","b">>, <<"G","i","t","H","u","b">>>>,
     <<<<"g","i","t","l","a","b">>, <<"G","i","t","L","a","b">>>>,
     <<<<"b","i","t","b","u","c","k","e","t">>, <<"B","i","t","b","u","c","k","e","t">>>>,
     <<<<"v","s"," ","c","o","d","e">>, <<"V","i","s","u","a","l"," ","S","t","u","d","i","o"," ","C","o","d","e">>>>,
     <<<<"v","s","c","o","d","e">>, <<"V","i","s","u","a","l"," ","S","t","u","d","i","o"," ","C","o","d","e">>>>,
     <<<<"v","i","s","u","a","l"," ","s","t","u","d","i","o">>, <<"V","i","s","u","a","l"," ","S","t","u","d","i","o">>>>,
     <<<<"i","n","t","e","l","l","i","j">>, <<"I","n","t","e","l","l","i","J"," ","I","D","E","A">>>>,
     <<<<"p","y","c","h","a","r","m">>, <<"P","y","C","h","a","r","m">>>>,
     <<<<"w","e","b","s","t","o","r","m">>, <<"W","e","b","S","t","o","r","m">>>>,
     <<<<"e","c","l","i","p","s","e">>, <<"E","c","l","i","p","s","e">>>>,
     <<<<"j","i","r","a">>, <<"J","i","r","a">>>>,
     <<<<"c","o","n","f","l","u","e","n","c","e">>, <<"C","o","n","f","l","u","e","n","c","e">>>>,
     <<<<"t","r","e","l","l","o">>, <<"T","r","e","l","l","o">>>>,
     <<<<"s","l","a","c","k">>, <<"S","l","a","c","k">>>>,
     <<<<"p","h","o","t","o","s","h","o","p">>, <<"A","d","o","b","e"," ","P","h","o","t","o","s","h","o","p">>>>,
     <<<<"i","l","l","u","s","t","r","a","t","o","r">>, <<"A","d","o","b","e"," ","I","l","l","u","s","t","r","a","t","o","r">>>>,
     <<<<"x","d">>, <<"A","d","o","b","e"," ","X","D">>>>,
     <<<<"f","i","g","m","a">>, <<"F","i","g","m","a">>>>,
     <<<<"s","k","e","t","c","h">>, <<"S","k","e","t","c","h">>>>,
     <<<<"a","g","i","l","e">>, <<"A","g","i","l","e">>>>,
     <<<<"á","g","i","l">>, <<"A","g","i","l","e">>>>,
     <<<<"s","c","r","u","m">>, <<"S","c","r","u","m">>>>,
     <<<<"k","a","n","b","a","n">>, <<"K","a","n","b","a","n">>>>,
     <<<<"l","e","a","n">>, <<"L","e","a","n">>>>,
     <<<<"w","a","t","e","r","f","a","l","l">>, <<"W","a","t","e","r","f","a","l","l">>>>,
     <<<<"c","a","s","c","a","t","a">>, <<"W","a","t","e","r","f","a","l","l">>>>,
     <<<<"t","d","d">>, <<"T","D","D">>>>,
     <<<<"b","d","d">>, <<"B","D","D">>>>,
     <<<<"x","p">>, <<"X","P">>>>,
     <<<<"e","x","t","r","e","m","e"," ","p","r","o","g","r","a","m","m","i","n","g">>, <<"X","P">>>>,
     <<<<"d","e","v","o","p","s">>, <<"D","e","v","O","p","s">>>>,
     <<<<"c","i","/","c","d">>, <<"C","I","/","C","D">>>>,
     <<<<"c","i","c","d">>, <<"C","I","/","C","D">>>>,
     <<<<"c","o","n","t","i","n","u","o","u","s"," ","i","n","t","e","g","r","a","t","i","o","n">>, <<"C","I","/","C","D">>>>,
     <<<<"c","o","n","t","i","n","u","o","u","s"," ","d","e","l","i","v","e","r","y">>, <<"C","I","/","C","D">>>>,
     <<<<"c","o","m","u","n","i","c","a","ç","ã","o">>, <<"C","o","m","u","n","i","c","a","ç","ã","o">>>>,
     <<<<"c","o","m","m","u","n","i","c","a","t","i","o","n">>, <<"C","o","m","u","n","i","c","a","ç","ã","o">>>>,
     <<<<"t","r","a","b","a","l","h","o"," ","e","m"," ","e","q","u","i","p","e">>, <<"T","r","a","b","a","l","h","o"," ","e","m"," ","E","q","u","i","p","e">>>>,
     <<<<"t","e","a","m","w","o","r","k">>, <<"T","r","a","b","a","l","h","o"," ","e","m"," ","E","q","u","i","p","e">>>>,
     <<<<"l","i","d","e","r","a","n","ç","a">>, <<"L","i","d","e","r","a","n","ç","a">>>>,
     <<<<"l","e","a","d","e","r","s","h","i","p">>, <<"L","i","d","e","r","a","n","ç","a">>>>,
     <<<<"r","e","s","o","l","u","ç","ã","o"," ","d","e"," ","p","r","o","b","l","e","m","a","s">>, <<"R","e","s","o","l","u","ç","ã","o"," ","d","e"," ","P","r","o","b","l","e","m","a","s">>>>,
     <<<<"p","r","o","b","l","e","m"," ","s","o","l","v","i","n","g">>, <<"R","e","s","o","l","u","ç","ã","o"," ","d","e"," ","P","r","o","b","l","e","m","a","s">>>>,
     <<<<"p","e","n","s","a","m","e","n","t","o"," ","c","r","í","t","i","c","o">>, <<"P","e","n","s","a","m","e","n","t","o"," ","C","r","í","t","i","c","o">>>>,
     <<<<"c","r","i","t","i","c","a","l"," ","t","h","i","n","k","i","n","g">>, <<"P","e","n","s","a","m","e","n","t","o"," ","C","r","í","t","i","c","o">>>>,
     <<<<"p","r","o","a","t","i","v","o">>, <<"P","r","o","a","t","i","v","i","d","a","d","e">>>>,
     <<<<"p","r","o","a","t","i","v","i","d","a","d","e">>, <<"P","r","o","a","t","i","v","i","d","a","d","e">>>>,
     <<<<"p","r","o","a","c","t","i","v","e">>, <<"P","r","o","a","t","i","v","i","d","a","d","e">>>>,
     <<<<"a","d","a","p","t","a","b","i","l","i","d","a","d","e">>, <<"A","d","a","p","t","a","b","i","l","i","d","a","d","e">>>>,
     <<<<"a","d","a","p","t","a","b","i","l","i","t","y">>, <<"A","d","a","p","t","a","b","i","l","i","d","a","d","e">>>>,
     <<<<"f","l","e","x","i","b","i","l","i","d","a","d","e">>, <<"F","l","e","x","i","b","i","l","i","d","a","d","e">>>>,
     <<<<"f","l","e","x","i","b","i","l","i","t","y">>, <<"F","l","e","x","i","b","i","l","i","d","a","d","e">>>>,
     <<<<"g","e","r","e","n","c","i","a","m","e","n","t","o"," ","d","e"," ","t","e","m","p","o">>, <<"G","e","r","e","n","c","i","a","m","e","n","t","o"," ","d","e"," ","T","e","m","p","o">>>>,
     <<<<"t","i","m","e"," ","m","a","n","a","g","e","m","e","n","t">>, <<"G","e","r","e","n","c","i","a","m","e","n","t","o"," ","d","e"," ","T","e","m","p","o">>>>,
     <<<<"n","e","g","o","c","i","a","ç","ã","o">>, <<"N","e","g","o","c","i","a","ç","ã","o">>>>,
     <<<<"n","e","g","o","t","i","a","t","i","o","n">>, <<"N","e","g","o","c","i","a","ç","ã","o">>>> >>

\* SkillMapper.categories after _load_default_mappings, in dict order
DefaultCategories ==
  << <<"technical", {<<"J","a","v","a","S","c","r","i","p","t">>,
        <<"T","y","p","e","S","c","r","i","p","t">>,
        <<"P","y","t","h","o","n">>,
        <<"J","a","v","a">>,
        <<"C","#">>,
        <<"C","+","+">>,
        <<"P","H","P">>,
        <<"R","u","b","y">>,
        <<"G","o">>,
        <<"S","w","i","f","t">>,
        <<"K","o","t","l","i","n">>,
        <<"R","u","s","t">>,
        <<"S","c","a","l","a">>,
        <<"P","e","r","l">>,
        <<"R"," ","(","l","a","n","g","u","a","g","e",")">>,
        <<"H","T","M","L">>,
        <<"C","S","S">>,
        <<"S","Q","L">>}>>,
     <<"soft", {<<"C","o","m","u","n","i","c","a","ç","ã","o">>,
        <<"T","r","a","b","a","l","h","o"," ","e","m"," ","E","q","u","i","p","e">>,
        <<"L","i","d","e","r","a","n","ç","a">>,
        <<"R","e","s","o","l","u","ç","ã","o"," ","d","e"," ","P","r","o","b","l","e","m","a","s">>,
        <<"P","e","n","s","a","m","e","n","t","o"," ","C","r","í","t","i","c","o">>,
        <<"P","r","o","a","t","i","v","i","d","a","d","e">>,
        <<"A","d","a","p","t","a","b","i","l","i","d","a","d","e">>,
        <<"F","l","e","x","i","b","i","l","i","d","a","d","e">>,
        <<"G","e","r","e","n","c","i","a","m","e","n","t","o"," ","d","e"," ","T","e","m","p","o">>,
        <<"N","e","g","o","c","i","a","ç","ã","o">>,
        <<"C","r","i","a","t","i","v","i","d","a","d","e">>,
        <<"E","m","p","a","t","i","a">>,
        <<"P","e","r","s","u","a","s","ã","o">>}>>,
     <<"languages", {}>>,
     <<"tools", {<<"V","i","s","u","a","l"," ","S","t","u","d","i","o"," ","C","o","d","e">>,
        <<"V","i","s","u","a","l"," ","S","t","u","d","i","o">>,
        <<"I","n","t","e","l","l","i","J"," ","I","D","E","A">>,
        <<"P","y","C","h","a","r","m">>,
        <<"W","e","b","S","t","o","r","m">>,
        <<"E","c","l","i","p","s","e">>,
        <<"J","i","r","a">>,
        <<"C","o","n","f","l","u","e","n","c","e">>,
        <<"T","r","e","l","l","o">>,
        <<"S","l","a","c","k">>,
        <<"A","d","o","b","e"," ","P","h","o","t","o","s","h","o","p">>,
        <<"A","d","o","b","e"," ","I","l","l","u","s","t","r","a","t","o","r">>,
        <<"A","d","o","b","e"," ","X","D">>,
        <<"F","i","g","m","a">>,
        <<"S","k","e","t","c","h">>}>>,
     <<"frameworks", {<<"R","e","a","c","t">>,
        <<"A","n","g","u","l","a","r">>,
        <<"A","n","g","u","l","a","r","J","S">>,
        <<"V","u","e",".","j","s">>,
        <<"N","o","d","e",".","j","s">>,
        <<"E","x","p","r","e","s","s",".","j","s">>,
        <<"D","j","a","n","g","o">>,
        <<"F","l","a","s","k">>,
        <<"S","p","r","i","n","g">>,
        <<"S","p","r","i","n","g"," ","B","o","o","t">>,
        <<".","N","E","T">>,
        <<"L","a","r","a","v","e","l">>,
        <<"R","u","b","y"," ","o","n"," ","R","a","i","l","s">>}>>,
     <<"databases", {<<"S","Q","L">>,
        <<"N","o","S","Q","L">>,
        <<"P","o","s","t","g","r","e","S","Q","L">>,
        <<"M","y","S","Q","L">>,
        <<"M","o","n","g","o","D","B">>,
        <<"O","r","a","c","l","e">>,
        <<"S","Q","L"," ","S","e","r","v","e","r">>,
        <<"S","Q","L","i","t","e">>,
        <<"R","e","d","i","s">>,
        <<"E","l","a","s","t","i","c","s","e","a","r","c","h">>,
        <<"D","y","n","a","m","o","D","B">>}>>,
     <<"platforms", {<<"A","W","S">>,
        <<"A","z","u","r","e">>,
        <<"G","o","o","g","l","e"," ","C","l","o","u","d">>,
        <<"F","i","r","e","b","a","s","e">>,
        <<"H","e","r","o","k","u">>,
        <<"D","o","c","k","e","r">>,
        <<"K","u","b","e","r","n","e","t","e","s">>,
        <<"J","e","n","k","i","n","s">>,
        <<"G","i","t">>,
        <<"G","i","t","H","u","b">>,
        <<"G","i","t","L","a","b">>,
        <<"B","i","t","b","u","c","k","e","t">>}>>,
     <<"certifications", {}>>,
     <<"methodologies", {<<"A","g","i","l","e">>,
        <<"S","c","r","u","m">>,
        <<"K","a","n","b","a","n">>,
        <<"L","e","a","n">>,
        <<"W","a","t","e","r","f","a","l","l">>,
        <<"T","D","D">>,
        <<"B","D","D">>,
        <<"X","P">>,
        <<"D","e","v","O","p","s">>,
        <<"C","I","/","C","D">>}>> >>

\* categorize_skill: soft_patterns
soft_patterns ==
  << <<"c","o","m","u","n","i","c","a","ç","ã","o">>,
     <<"c","o","m","u","n","i","c","a">>,
     <<"c","o","m","m","u","n","i","c","a","t","i","o","n">>,
     <<"e","q","u","i","p","e">>,
     <<"t","e","a","m">>,
     <<"g","r","u","p","o">>,
     <<"g","r","o","u","p">>,
     <<"l","i","d","e","r","a","n">>,
     <<"l","e","a","d">>,
     <<"g","e","s","t","ã","o">>,
     <<"m","a","n","a","g","e","m","e","n","t">>,
     <<"r","e","s","o","l","u","ç","ã","o">>,
     <<"s","o","l","v">>,
     <<"p","r","o","b","l","e","m">>,
     <<"p","r","o","b","l","e","m","a">>,
     <<"c","r","í","t","i","c","o">>,
     <<"c","r","i","t","i","c","a","l">>,
     <<"t","h","i","n","k">>,
     <<"p","e","n","s">>,
     <<"c","r","i","a","t","i","v">>,
     <<"c","r","e","a","t","i","v">>,
     <<"i","n","o","v","a","t">>,
     <<"i","n","o","v">>,
     <<"a","d","a","p","t","a","b">>,
     <<"f","l","e","x">>,
     <<"e","m","p","a","t","i","a">>,
     <<"e","m","p","a","t","h","y">>,
     <<"o","r","g","a","n","i","z","a">>,
     <<"p","l","a","n","e","j","a">>,
     <<"p","l","a","n">>,
     <<"a","p","r","e","n","d">>,
     <<"l","e","a","r","n">>,
     <<"c","o","l","l","a","b","o","r">>,
     <<"c","o","l","a","b","o","r">>,
     <<"c","o","n","f","l","i">>,
     <<"n","e","g","o","c","i">>,
     <<"n","e","g","o","t">>,
     <<"p","e","r","s","u","a">>,
     <<"r","e","l","a","t","i","o","n","s","h","i","p">>,
     <<"r","e","l","a","c","i","o","n","a","m","e","n","t","o">>,
     <<"m","o","t","i","v","a","ç","ã","o">>,
     <<"m","o","t","i","v","a","t">> >>

----------------------------------------------------------------------------
(* SkillMapper                                                             *)

\* key in self.skill_map
map_has(map, key) == \E i \in 1..Len(map) : map[i][1] = key

\* self.skill_map[key]
map_get(map, key) == map[CHOOSE i \in 1..Len(map) : map[i][1] = key][2]

\* The score an item of `for key, value in self.skill_map.items()` competes with
\* in normalize_skill: len(key) when one string contains the other, else
\* ratio * len(key) when ratio > 0.8, else 0 (the item never becomes best_match)
partial_score(key, normalized) ==
  LET match_score(ratio) ==
        IF r_lt(<<8, 10>>, ratio) THEN r_mul(ratio, r_int(Len(key))) ELSE r_int(0)
  IN  IF str_in(key, normalized) \/ str_in(normalized, key)
      THEN r_int(Len(key))
      ELSE match_score(sequence_ratio(key, normalized))

\* The item the loop ends with: best_match is replaced only by a strictly
\* greater score, so it is the first of the items with the greatest score
best_of(found) ==
  CHOOSE c \in found :
    \A d \in found : r_lt(d[2], c[2]) \/ (~r_lt(c[2], d[2]) /\ d[1] >= c[1])

\* The loop of normalize_skill over the items in insertion order; <<>> for None
partial_match(map, normalized) ==
  LET first_best(found) == IF found = {} THEN <<>> ELSE map[best_of(found)[1]][2]
  IN  first_best({c \in { <<i, partial_score(map[i][1], normalized)>> : i \in 1..Len(map) } :
                    r_lt(r_int(0), c[2])})

\* SkillMapper.normalize_skill
normalize_skill(map, skill) ==
  IF skill = <<>> THEN <<>>
  ELSE LET or_capitalized(best_match) ==
             IF best_match # <<>> THEN best_match ELSE capitalize_first(skill)
           lookup(normalized) ==
             IF map_has(map, normalized) THEN map_get(map, normalized)
             ELSE or_capitalized(partial_match(map, normalized))
       IN  lookup(str_lower(str_strip(skill)))

\* SkillMapper.categorize_skill
categorize_skill(map, categories, skill) ==
  LET by_pattern(skill_lower) ==
        IF \E p \in 1..Len(soft_patterns) : str_in(soft_patterns[p], skill_lower)
        THEN "soft"
        ELSE "technical"
      by_category(norm_skill) ==
        IF \E c \in 1..Len(categories) : norm_skill \in categories[c][2]
        THEN categories[CHOOSE c \in 1..Len(categories) :
                          /\ norm_skill \in categories[c][2]
                          /\ \A b \in 1..(c - 1) : norm_skill \notin categories[b][2]][1]
        ELSE by_pattern(str_lower(skill))
  IN  by_category(normalize_skill(map, skill))

\* x in list
in_list(x, list) == \E i \in 1..Len(list) : list[i] = x

\* if x not in list: list.append(x)
append_new(list, x) == IF in_list(x, list) THEN list ELSE Append(list, x)

\* normalize_skills, the `isinstance(skills, list)` branch, from element i on
RECURSIVE normalize_list(_, _, _, _, _)
normalize_list(map, categories, skills, i, normalized) ==
  IF i > Len(skills) THEN normalized
  ELSE IF skills[i] = <<>> THEN normalize_list(map, categories, skills, i + 1, normalized)
  ELSE LET add_to(bucket, norm_skill) ==
             [normalized EXCEPT ![bucket] = append_new(normalized[bucket], norm_skill)]
           add(category, norm_skill) ==
             add_to(IF category \in DOMAIN normalized THEN category ELSE "technical",
                    norm_skill)
           categorized(norm_skill) ==
             add(categorize_skill(map, categories, norm_skill), norm_skill)
       IN  normalize_list(map, categories, skills, i + 1,
                          categorized(normalize_skill(map, skills[i])))

\* normalize_skills, the `isinstance(skills, dict)` branch: one category's list
RECURSIVE normalize_category(_, _, _, _)
normalize_category(map, skill_list, i, acc) ==
  IF i > Len(skill_list) THEN acc
  ELSE LET add(norm_skill) == IF norm_skill # <<>> THEN append_new(acc, norm_skill) ELSE acc
       IN  normalize_category(map, skill_list, i + 1, add(normalize_skill(map, skill_list[i])))

\* SkillMapper.normalize_skills.  skills is [t |-> "list", v |-> <<...>>],
\* [t |-> "dict", v |-> [category |-> <<...>>]] or [t |-> "none"] (any other type).
normalize_skills(map, categories, skills) ==
  LET empty == [technical |-> <<>>, soft |-> <<>>]
  IN  IF skills.t = "list" THEN normalize_list(map, categories, skills.v, 1, empty)
      ELSE IF skills.t = "dict"
      THEN [c \in {"technical", "soft"} \cup {k \in DOMAIN skills.v : skills.v[k] # <<>>} |->
              IF c \in DOMAIN skills.v
              THEN normalize_category(map, skills.v[c], 1, <<>>)
              ELSE <<>>]
      ELSE empty

----------------------------------------------------------------------------
(* MatchService: the deterministic scorer                                  *)

\* dict.get(key, default)
get(d, key, default) == IF key \in DOMAIN d THEN d[key] ELSE default

\* the object has a .get method: it is a dict, not a model row
has_get(data) == "class" \notin DOMAIN data

\* an any(s == skill for s in resume_skills_norm): whole-string matches only
skill_present_exact(skill, resume_skills_norm) ==
  \E i \in 1..Len(resume_skills_norm) : resume_skills_norm[i] = skill

\* any(s in skill or skill in s for s in resume_skills_norm)
skill_present(skill, resume_skills_norm) ==
  \E i \in 1..Len(resume_skills_norm) :
     str_in(resume_skills_norm[i], skill) \/ str_in(skill, resume_skills_norm[i])

\* a _calculate_skills_match that takes the surplus off the score
_calculate_skills_match_penalty(resume_skills, job_skills) ==
  IF job_skills = <<>> THEN r_int(1)
  ELSE IF resume_skills = <<>> THEN r_int(0)
  ELSE LET scored(resume_len, job_len, score) ==
             IF resume_len > job_len
             THEN r_max(r_int(0),
                        r_sub(score, r_min(<<15, 100>>,
                                           rat((resume_len - job_len) * 15, job_len * 100))))
             ELSE score
       IN  scored(Len(resume_skills), Len(job_skills),
                  rat(Cardinality({i \in 1..Len(job_skills) :
                                     skill_present(str_lower(job_skills[i]),
                                                   [r \in 1..Len(resume_skills) |->
                                                      str_lower(resume_skills[r])])}),
                      Len(job_skills)))

\* MatchService._calculate_skills_match
_calculate_skills_match(resume_skills, job_skills) ==
  IF job_skills = <<>> THEN r_int(1)
  ELSE IF resume_skills = <<>> THEN r_int(0)
  ELSE LET scored(resume_skills_norm, job_skills_norm, score) ==
             IF Len(resume_skills_norm) > Len(job_skills_norm)
             THEN r_min(r_int(1),
                        r_add(score,
                              r_min(<<15, 100>>,
                                    rat((Len(resume_skills_norm) - Len(job_skills_norm)) * 15,
                                        Len(job_skills_norm) * 100))))
             ELSE score
           matched(resume_skills_norm, job_skills_norm) ==
             scored(resume_skills_norm, job_skills_norm,
                    rat(Cardinality({i \in 1..Len(job_skills_norm) :
                                       skill_present(job_skills_norm[i], resume_skills_norm)}),
                        Len(job_skills_norm)))
       IN  matched([i \in 1..Len(resume_skills) |-> str_lower(resume_skills[i])],
                   [i \in 1..Len(job_skills) |-> str_lower(job_skills[i])])

\* MatchService._identify_skill_gaps: matching_skills, from job skill i on
RECURSIVE matching_from(_, _, _, _)
matching_from(resume_skills, job_skills, i, matching_skills) ==
  IF i > Len(job_skills) THEN matching_skills
  ELSE matching_from(resume_skills, job_skills, i + 1,
         IF \E r \in 1..Len(resume_skills) :
               \/ str_in(str_lower(job_skills[i]), str_lower(resume_skills[r]))
               \/ str_in(str_lower(resume_skills[r]), str_lower(job_skills[i]))
         THEN append_new(matching_skills, job_skills[i])
         ELSE matching_skills)

\* [x for x in list if keep(x)], as a sequence in list order
RECURSIVE filter_out(_, _, _)
filter_out(list, excluded, i) ==
  IF i > Len(list) THEN <<>>
  ELSE (IF in_list(list[i], excluded) THEN <<>> ELSE <<list[i]>>)
       \o filter_out(list, excluded, i + 1)

\* MatchService._identify_skill_gaps
_identify_skill_gaps(resume_skills, job_skills) ==
  LET gaps(matching_skills) ==
        [matching_skills |-> matching_skills,
         missing_skills |-> filter_out(job_skills, matching_skills, 1)]
  IN  gaps(matching_from(resume_skills, job_skills, 1, <<>>))
\* _calculate_experience_match: experience_levels, in dict order
experience_levels ==
  << <<<<"e","s","t","á","g","i","o">>, 0>>,
     <<<<"j","ú","n","i","o","r">>, 1>>,
     <<<<"j","u","n","i","o","r">>, 1>>,
     <<<<"p","l","e","n","o">>, 2>>,
     <<<<"s","ê","n","i","o","r">>, 3>>,
     <<<<"s","e","n","i","o","r">>, 3>>,
     <<<<"e","s","p","e","c","i","a","l","i","s","t","a">>, 3>>,
     <<<<"g","e","r","e","n","t","e">>, 4>>,
     <<<<"d","i","r","e","t","o","r">>, 5>>,
     <<<<"e","x","e","c","u","t","i","v","o">>, 6>> >>

\* _calculate_education_match: the terms that mark a requirement as an education one
education_terms ==
  << <<"f","o","r","m","a","ç","ã","o">>,
     <<"g","r","a","d","u","a","ç","ã","o">>,
     <<"e","n","s","i","n","o">>,
     <<"d","e","g","r","e","e">>,
     <<"e","d","u","c","a","t","i","o","n">> >>

\* _calculate_education_match: the if/elif chain that sets required_degree
required_degree_rules ==
  << <<{<<"s","u","p","e","r","i","o","r">>, <<"g","r","a","d","u","a","ç","ã","o">>, <<"b","a","c","h","e","l","o","r">>}, <<"s","u","p","e","r","i","o","r">>>>,
     <<{<<"p","ó","s">>, <<"e","s","p","e","c","i","a","l","i","z","a","ç","ã","o">>, <<"p","o","s","t","-","g","r","a","d">>}, <<"p","o","s">>>>,
     <<{<<"m","e","s","t","r","a","d","o">>, <<"m","a","s","t","e","r">>}, <<"m","e","s","t","r","a","d","o">>>>,
     <<{<<"d","o","u","t","o","r","a","d","o">>, <<"p","h","d">>}, <<"d","o","u","t","o","r","a","d","o">>>>,
     <<{<<"t","é","c","n","i","c","o">>, <<"t","e","c","h","n","i","c","a","l">>}, <<"t","e","c","n","i","c","o">>>> >>

\* _calculate_education_match: fields
education_fields ==
  << <<"c","o","m","p","u","t","a","ç","ã","o">>,
     <<"s","i","s","t","e","m","a","s">>,
     <<"t","i">>,
     <<"i","n","f","o","r","m","á","t","i","c","a">>,
     <<"s","o","f","t","w","a","r","e">>,
     <<"e","n","g","e","n","h","a","r","i","a">>,
     <<"a","d","m","i","n","i","s","t","r","a","ç","ã","o">>,
     <<"n","e","g","ó","c","i","o","s">>,
     <<"m","a","r","k","e","t","i","n","g">>,
     <<"d","e","s","i","g","n">>,
     <<"c","o","m","u","n","i","c","a","ç","ã","o">>,
     <<"d","i","r","e","i","t","o">>,
     <<"e","c","o","n","o","m","i","a">>,
     <<"c","o","n","t","a","b","i","l","i","d","a","d","e">>,
     <<"f","i","n","a","n","ç","a","s">>,
     <<"r","e","c","u","r","s","o","s"," ","h","u","m","a","n","o","s">>,
     <<"r","h">> >>

\* _calculate_education_match: degree_levels, in dict order
degree_levels ==
  << <<<<"e","n","s","i","n","o"," ","m","é","d","i","o">>, 1>>,
     <<<<"t","é","c","n","i","c","o">>, 2>>,
     <<<<"s","u","p","e","r","i","o","r">>, 3>>,
     <<<<"g","r","a","d","u","a","ç","ã","o">>, 3>>,
     <<<<"b","a","c","h","a","r","e","l","a","d","o">>, 3>>,
     <<<<"l","i","c","e","n","c","i","a","t","u","r","a">>, 3>>,
     <<<<"t","e","c","n","ó","l","o","g","o">>, 3>>,
     <<<<"p","ó","s","-","g","r","a","d","u","a","ç","ã","o">>, 4>>,
     <<<<"e","s","p","e","c","i","a","l","i","z","a","ç","ã","o">>, 4>>,
     <<<<"m","b","a">>, 4>>,
     <<<<"m","e","s","t","r","a","d","o">>, 5>>,
     <<<<"d","o","u","t","o","r","a","d","o">>, 6>>,
     <<<<"p","h","d">>, 6>> >>

\* _calculate_job_title_match: stop_words
stop_words ==
  {<<"d","e">>, <<"d","a">>, <<"d","o">>, <<"e">>, <<"p","a","r","a">>, <<"n","o">>, <<"n","a">>, <<"e","m">>, <<"c","o","m">>, <<"o">>, <<"a">>, <<"o","s">>, <<"a","s">>}

\* _generate_recommendations: the levels that earn the achievements tip
quantify_levels ==
  {<<"p","l","e","n","o">>, <<"s","ê","n","i","o","r">>, <<"s","e","n","i","o","r">>, <<"g","e","r","e","n","t","e">>}

\* A date field of an experience entry: [k |-> "iso", y |-> year, m |-> month] for
\* an ISO-8601 string, [k |-> "text"] for a string datetime.fromisoformat rejects
\* ('Presente'), [k |-> "none"] for None or ''.
months_between(start, end) == (end.y - start.y) * 12 + (end.m - start.m)

\* The loop `for exp in resume_experience` of _calculate_experience_match from
\* entry i on.  Returns [raised, total_months, relevant_experience]; raised is
\* the AttributeError of None.replace(...), which the loop's
\* `except (ValueError, TypeError)` does not catch.
RECURSIVE experience_months(_, _, _, _, _, _)
experience_months(resume_experience, job_data, now, i, total_months, relevant_experience) ==
  IF i > Len(resume_experience)
  THEN [raised |-> FALSE, total_months |-> total_months,
        relevant_experience |-> relevant_experience]
  ELSE LET exp == resume_experience[i]
           start_date == get(exp, "start_date", [k |-> "none"])
           end_date == get(exp, "end_date", [k |-> "iso", y |-> now.y, m |-> now.m])
           months == months_between(start_date, end_date)
           exp_title == str_lower(get(exp, "title", <<>>))
           job_title == str_lower(get(job_data, "title", <<>>))
       IN  IF start_date.k = "none"
           THEN experience_months(resume_experience, job_data, now, i + 1,
                                  total_months, relevant_experience)
           ELSE IF start_date.k = "text"
           THEN experience_months(resume_experience, job_data, now, i + 1,
                                  total_months + 12, relevant_experience)
           ELSE IF end_date.k = "none"
           THEN [raised |-> TRUE, total_months |-> total_months,
                 relevant_experience |-> relevant_experience]
           ELSE IF end_date.k = "text"
           THEN experience_months(resume_experience, job_data, now, i + 1,
                                  total_months + 12, relevant_experience)
           ELSE experience_months(resume_experience, job_data, now, i + 1,
                  total_months + months,
                  IF str_in(exp_title, job_title) \/ str_in(job_title, exp_title)
                  THEN relevant_experience + months
                  ELSE relevant_experience)

\* the if/elif chain on total_months
candidate_experience_level(total_months) ==
  IF total_months < 6 THEN 0
  ELSE IF total_months < 24 THEN 1
  ELSE IF total_months < 60 THEN 2
  ELSE IF total_months < 96 THEN 3
  ELSE IF total_months < 120 THEN 4
  ELSE 5

\* `for level, value in experience_levels.items(): if level in ...: break`
job_experience_level_value(job_experience_level) ==
  IF \E i \in 1..Len(experience_levels) : str_in(experience_levels[i][1], job_experience_level)
  THEN experience_levels[CHOOSE i \in 1..Len(experience_levels) :
          /\ str_in(experience_levels[i][1], job_experience_level)
          /\ \A j \in 1..(i - 1) : ~str_in(experience_levels[j][1], job_experience_level)][2]
  ELSE 0

\* a _calculate_experience_match without `if not resume_experience: return 0.0`
_calculate_experience_match_unguarded(resume_experience, job_data, now) ==
  LET job_level_value ==
             job_experience_level_value(str_lower(get(job_data, "experience_level", <<>>)))
           loop == experience_months(resume_experience, job_data, now, 1, 0, 0)
           candidate_level == candidate_experience_level(loop.total_months)
           level_diff == job_level_value - candidate_level
           score == IF candidate_level >= job_level_value THEN r_int(1)
                    ELSE r_max(r_int(0), r_sub(r_int(1), rat(level_diff * 25, 100)))
           relevance_bonus == r_min(<<2, 10>>, rat(loop.relevant_experience * 2, 360))
       IN  IF loop.raised THEN [raised |-> TRUE, score |-> r_int(0)]
           ELSE [raised |-> FALSE,
                 score |-> IF loop.relevant_experience > 0
                           THEN r_min(r_int(1), r_add(score, relevance_bonus))
                           ELSE score]

\* MatchService._calculate_experience_match: [raised, score]
_calculate_experience_match(resume_experience, job_data, now) ==
  IF resume_experience = <<>> THEN [raised |-> FALSE, score |-> r_int(0)]
  ELSE LET job_level_value ==
             job_experience_level_value(str_lower(get(job_data, "experience_level", <<>>)))
           loop == experience_months(resume_experience, job_data, now, 1, 0, 0)
           candidate_level == candidate_experience_level(loop.total_months)
           level_diff == job_level_value - candidate_level
           score == IF candidate_level >= job_level_value THEN r_int(1)
                    ELSE r_max(r_int(0), r_sub(r_int(1), rat(level_diff * 25, 100)))
           relevance_bonus == r_min(<<2, 10>>, rat(loop.relevant_experience * 2, 360))
       IN  IF loop.raised THEN [raised |-> TRUE, score |-> r_int(0)]
           ELSE [raised |-> FALSE,
                 score |-> IF loop.relevant_experience > 0
                           THEN r_min(r_int(1), r_add(score, relevance_bonus))
                           ELSE score]

\* index of the first element of list satisfying the test, 0 when there is none
first_index(list, Test(_)) ==
  IF \E i \in 1..Len(list) : Test(list[i])
  THEN CHOOSE i \in 1..Len(list) : Test(list[i]) /\ \A j \in 1..(i - 1) : ~Test(list[j])
  ELSE 0

\* MatchService._calculate_education_match
_calculate_education_match(resume_education, job_data) ==
  IF resume_education = <<>> THEN r_int(0)
  ELSE
  LET job_requirements == get(job_data, "requirements", <<>>)
      is_education_req(req) ==
        \E t \in 1..Len(education_terms) : str_in(education_terms[t], str_lower(req))
      req_index == first_index(job_requirements, is_education_req)
      education_required == req_index # 0
      req_lower == str_lower(job_requirements[req_index])
      rule_hits(rule) == \E term \in rule[1] : str_in(term, req_lower)
      rule_index == first_index(required_degree_rules, rule_hits)
      \* <<>> stands for None
      required_degree == IF rule_index = 0 THEN <<>> ELSE required_degree_rules[rule_index][2]
      field_hits(field) == str_in(field, req_lower)
      field_index == first_index(education_fields, field_hits)
      required_field == IF field_index = 0 THEN <<>> ELSE education_fields[field_index]
      names_required(level) == str_in(required_degree, level[1])
      level_index == first_index(degree_levels, names_required)
      required_level == IF required_degree # <<>> /\ level_index # 0
                        THEN degree_levels[level_index][2] ELSE 3
      entry_level(edu) ==
        LET degree == str_lower(get(edu, "degree", <<>>))
            in_degree(level) == str_in(level[1], degree)
            idx == first_index(degree_levels, in_degree)
        IN  IF idx = 0 THEN 0 ELSE degree_levels[idx][2]
      levels == {entry_level(resume_education[i]) : i \in 1..Len(resume_education)}
      candidate_level == CHOOSE l \in levels \cup {0} : \A k \in levels \cup {0} : k <= l
      field_match ==
        /\ required_field # <<>>
        /\ \E i \in 1..Len(resume_education) :
              LET field == str_lower(get(resume_education[i], "field_of_study", <<>>))
              IN  str_in(required_field, field) \/ str_in(field, required_field)
      level_diff == required_level - candidate_level
      level_score == IF candidate_level >= required_level THEN r_int(1)
                     ELSE r_max(r_int(0), r_sub(r_int(1), rat(level_diff * 3, 10)))
  IN  IF ~education_required THEN r_int(1)
      ELSE IF required_field = <<>> THEN level_score
      ELSE IF field_match THEN r_min(r_int(1), r_add(level_score, <<2, 10>>))
      ELSE r_max(r_int(0), r_sub(level_score, <<2, 10>>))

\* s.split(): the whitespace-separated words of s
RECURSIVE str_split(_)
str_split(s) ==
  LET t == str_strip(s)
      spaces == {i \in 1..Len(t) : is_space(t[i])}
      cut == CHOOSE i \in spaces : \A j \in spaces : i <= j
  IN  IF t = <<>> THEN <<>>
      ELSE IF spaces = {} THEN <<t>>
      ELSE <<SubSeq(t, 1, cut - 1)>> \o str_split(SubSeq(t, cut + 1, Len(t)))

\* MatchService._calculate_job_title_match
_calculate_job_title_match(resume_title, job_title) ==
  IF resume_title = <<>> \/ job_title = <<>> THEN <<1, 2>>
  ELSE LET word_set(words) == {words[i] : i \in 1..Len(words)} \ stop_words
           with_bonus(jaccard, direct_match) ==
             IF direct_match THEN r_min(r_int(1), r_add(jaccard, <<3, 10>>)) ELSE jaccard
           compare(resume_words, job_words, job_title_norm) ==
             IF resume_words = {} \/ job_words = {} THEN <<1, 2>>
             ELSE with_bonus(rat(Cardinality(resume_words \cap job_words),
                                 Cardinality(resume_words \cup job_words)),
                             \E word \in resume_words :
                                Len(word) > 3 /\ str_in(word, job_title_norm))
           normalized(resume_title_norm, job_title_norm) ==
             compare(word_set(str_split(resume_title_norm)),
                     word_set(str_split(job_title_norm)), job_title_norm)
       IN  normalized(str_lower(resume_title), str_lower(job_title))

\* MatchService._generate_recommendations; each templated sentence is the record
\* of its template and of the values formatted into it
_generate_recommendations(missing_skills, job_data) ==
  LET job_title == get(job_data, "title", <<>>)
      experience_level == get(job_data, "experience_level", <<>>)
  IN  (IF missing_skills # <<>>
       THEN <<[template |-> "add_skills",
               skills |-> SubSeq(missing_skills, 1,
                                 IF Len(missing_skills) < 5 THEN Len(missing_skills) ELSE 5)]>>
            \o (IF Len(missing_skills) > 5
                THEN <<[template |-> "develop_skills",
                        skills |-> SubSeq(missing_skills, 6, Len(missing_skills))]>>
                ELSE <<>>)
       ELSE <<>>)
      \o (IF job_title # <<>>
          THEN <<[template |-> "adapt_objective", title |-> job_title]>> ELSE <<>>)
      \o (IF experience_level # <<>> /\ str_lower(experience_level) \in quantify_levels
          THEN <<[template |-> "quantify_achievements"]>> ELSE <<>>)
      \o <<[template |-> "personalize_cover_letter"]>>

\* round(p, 2) of a rational number of points p, in thousandths of a point
\* (round-half-even on the exact value)
round2(p) ==
  LET n == p[1] * 100
      q == n \div p[2]
      rem == n % p[2]
  IN  10 * (IF 2 * rem > p[2] \/ (2 * rem = p[2] /\ q % 2 = 1) THEN q + 1 ELSE q)

\* self.weights
weights ==
  [skills_technical |-> <<35, 100>>, skills_soft |-> <<15, 100>>,
   experience |-> <<25, 100>>, education |-> <<15, 100>>,
   job_title_match |-> <<10, 100>>]

\* MatchService.calculate_match, the body of the second `try:` (the internal
\* algorithm): [status |-> "raise"] when a sub-score computation raises, else
\* [status |-> "return", value |-> match_result]
internal_algorithm(resume_data, job_data, now) ==
  LET no_skills == [t |-> "list", v |-> <<>>]
      overall(technical_skills_score, soft_skills_score, experience_score,
              education_score, job_title_score) ==
        r_min(r_int(100), r_max(r_int(0), r_mul(r_int(100),
          r_add(r_mul(technical_skills_score, weights.skills_technical),
          r_add(r_mul(soft_skills_score, weights.skills_soft),
          r_add(r_mul(experience_score, weights.experience),
          r_add(r_mul(education_score, weights.education),
                r_mul(job_title_score, weights.job_title_match))))))))
      match_result(technical_skills_score, soft_skills_score, experience_score,
                   education_score, job_title_score, gaps) ==
        [score_overall |-> round2(overall(technical_skills_score, soft_skills_score,
                                          experience_score, education_score,
                                          job_title_score)),
         score_details |->
           [technical_skills |-> round2(r_mul(technical_skills_score, r_int(100))),
            soft_skills |-> round2(r_mul(soft_skills_score, r_int(100))),
            experience |-> round2(r_mul(experience_score, r_int(100))),
            education |-> round2(r_mul(education_score, r_int(100))),
            job_title |-> round2(r_mul(job_title_score, r_int(100)))],
         matching_skills |-> gaps.matching_skills,
         missing_skills |-> gaps.missing_skills,
         recommendations |-> _generate_recommendations(gaps.missing_skills, job_data),
         created_at |-> now]
      scored(mapped_resume_skills, mapped_job_skills, experience) ==
        IF experience.raised THEN [status |-> "raise"]
        ELSE [status |-> "return",
              value |-> match_result(
                _calculate_skills_match(mapped_resume_skills.technical,
                                        mapped_job_skills.technical),
                _calculate_skills_match(mapped_resume_skills.soft, mapped_job_skills.soft),
                experience.score,
                _calculate_education_match(get(resume_data, "education", <<>>), job_data),
                _calculate_job_title_match(get(resume_data, "title", <<>>),
                                           get(job_data, "title", <<>>)),
                _identify_skill_gaps(
                  mapped_resume_skills.technical \o mapped_resume_skills.soft,
                  mapped_job_skills.technical \o mapped_job_skills.soft))]
  IN  scored(normalize_skills(DefaultSkillMap, DefaultCategories,
                              get(resume_data, "skills", no_skills)),
             normalize_skills(DefaultSkillMap, DefaultCategories,
                              get(job_data, "skills", no_skills)),
             _calculate_experience_match(get(resume_data, "experience", <<>>), job_data, now))

\* MatchService.calculate_match: `except Exception as e:` of the internal algorithm
internal_except(now) ==
  [status |-> "return",
   value |-> [score_overall |-> 0, error |-> "str(e)", created_at |-> now]]

\* MatchService.calculate_match from `# Caso contrário, usamos o algoritmo interno` on
calculate_internal(resume_data, job_data, now) ==
  LET handled(attempt_result) ==
        IF attempt_result.status = "raise" THEN internal_except(now) ELSE attempt_result
  IN  handled(internal_algorithm(resume_data, job_data, now))

----------------------------------------------------------------------------
(* ClaudeService                                                           *)

\* self.max_retries
max_retries == 3

\* self.retry_delay, in seconds
retry_delay == 2

RECURSIVE pow2(_)
pow2(n) == IF n = 0 THEN 1 ELSE 2 * pow2(n - 1)

\* _send_request, `except RateLimitError:` wait_time
rate_limit_wait(attempt) == retry_delay * pow2(attempt)

\* a _send_request that re-raises every exception that is no rate-limit signal
reraise_error_always(attempt) == TRUE

\* _send_request, `except Exception`: `if attempt == self.max_retries - 1: raise`
reraise_error(attempt) == attempt = max_retries - 1

\* a loop `for attempt in range(self.max_retries + 1)`
has_next_attempt_one_more(attempt) == attempt + 1 < max_retries + 1

\* _send_request: `for attempt in range(self.max_retries)` has a next iteration
has_next_attempt(attempt) == attempt + 1 < max_retries

\* A delegate response text is the record of what the parsers find in it:
\*   body           the dict json.loads yields from the fenced JSON block, <<>> when
\*                  the text has no such block or the block is not valid JSON
\*   score_text     <<n>> when score_pattern matches the number n, else <<>>
\*   matching_text, missing_text, recom_text
\*                  the items under the labelled lists, <<>> when a label is absent
\* A JSON value that float() accepts is [t |-> "num", v |-> thousandths]; one it
\* rejects is [t |-> "str"].

\* ResponseParser.extract_json; <<>> stands for None and for the empty dict, which
\* its callers treat alike (`if not result`)
extract_json(response_text) == response_text.body

\* ClaudeService._fallback_match_parsing
_fallback_match_parsing(response_text, now) ==
  [score_overall |->
     IF response_text.score_text = <<>> THEN [t |-> "num", v |-> 0]
     ELSE LET score == response_text.score_text[1]
          IN  [t |-> "num", v |-> IF score <= 1000 THEN score * 100 ELSE score],
   score_details |-> <<>>,
   matching_skills |-> response_text.matching_text,
   missing_skills |-> response_text.missing_text,
   recommendations |-> response_text.recom_text,
   created_at |-> now]

\* ClaudeService.calculate_match: the if/elif/else on `score`
normalize_score(score) ==
  IF score > 1000 /\ score <= 100000 THEN score
  ELSE IF score >= 0 /\ score <= 1000 THEN score * 100
  ELSE LET capped == IF score < 100000 THEN score ELSE 100000
       IN  IF capped > 0 THEN capped ELSE 0

\* a ClaudeService.calculate_match that raises when extract_json finds nothing
parse_match_response_strict(response_text, now) ==
  LET checked(result) ==
        IF result = <<>> THEN [status |-> "raise"]
        ELSE IF "score_overall" \notin DOMAIN result
        THEN [status |-> "return",
              value |-> [k \in DOMAIN result \cup {"score_overall"} |->
                           IF k = "score_overall" THEN 0 ELSE result[k]]]
        ELSE IF result.score_overall.t # "num" THEN [status |-> "raise"]
        ELSE [status |-> "return",
              value |-> [result EXCEPT
                           !.score_overall = normalize_score(result.score_overall.v)]]
  IN  checked(extract_json(response_text))

\* ClaudeService.calculate_match once _send_request has returned response_text
parse_match_response(response_text, now) ==
  LET checked(result) ==
        IF "score_overall" \notin DOMAIN result
        THEN [status |-> "return",
              value |-> [k \in DOMAIN result \cup {"score_overall"} |->
                           IF k = "score_overall" THEN 0 ELSE result[k]]]
        ELSE IF result.score_overall.t # "num" THEN [status |-> "raise"]
        ELSE [status |-> "return",
              value |-> [result EXCEPT
                           !.score_overall = normalize_score(result.score_overall.v)]]
      parsed(extracted) ==
        checked(IF extracted = <<>> THEN _fallback_match_parsing(response_text, now)
                ELSE extracted)
  IN  parsed(extract_json(response_text))

\* MatchService.calculate_match, the first `try:` once the delegate has answered:
\* [path |-> "ai", value |-> the delegate's record with created_at set], or
\* [path |-> "internal"] when ClaudeService.calculate_match raised
after_response(response_text, now) ==
  LET stamped(delegated) ==
        IF delegated.status = "raise" THEN [path |-> "internal"]
        ELSE [path |-> "ai",
              value |-> [k \in DOMAIN delegated.value \cup {"created_at"} |->
                           IF k = "created_at" THEN now ELSE delegated.value[k]]]
  IN  stamped(parse_match_response(response_text, now))
\* The strings of the requests below
S_Python == <<"P","y","t","h","o","n">>
S_SQL == <<"S","Q","L">>
S_Django == <<"D","j","a","n","g","o">>
S_Docker == <<"D","o","c","k","e","r">>
S_Cobol == <<"C","o","b","o","l">>
S_js == <<"j","s">>
S_React == <<"R","e","a","c","t">>
S_vs_code == <<"v","s"," ","c","o","d","e">>
S_Teamwork == <<"T","e","a","m","w","o","r","k">>
S_Leadership == <<"L","e","a","d","e","r","s","h","i","p">>
S_Communication == <<"C","o","m","m","u","n","i","c","a","t","i","o","n">>
S_Java == <<"J","a","v","a">>
S_Python_Developer == <<"P","y","t","h","o","n"," ","D","e","v","e","l","o","p","e","r">>
S_Senior_Python_Developer == <<"S","e","n","i","o","r"," ","P","y","t","h","o","n"," ","D","e","v","e","l","o","p","e","r">>
S_Frontend_Developer == <<"F","r","o","n","t","e","n","d"," ","D","e","v","e","l","o","p","e","r">>
S_Data_Analyst == <<"D","a","t","a"," ","A","n","a","l","y","s","t">>
S_Senior == <<"S","ê","n","i","o","r">>
S_Pleno == <<"P","l","e","n","o">>
S_req_graduacao == <<"G","r","a","d","u","a","ç","ã","o"," ","e","m"," ","C","o","m","p","u","t","a","ç","ã","o">>
S_req_java == <<"E","x","p","e","r","i","e","n","c","e"," ","w","i","t","h"," ","J","a","v","a">>
S_Bacharelado == <<"B","a","c","h","a","r","e","l","a","d","o">>
S_Ciencia_da_Computacao == <<"C","i","ê","n","c","i","a"," ","d","a"," ","C","o","m","p","u","t","a","ç","ã","o">>

\* datetime.utcnow() at the moment the record is built
Times == <<[y |-> 2025, m |-> 6], [y |-> 2026, m |-> 11]>>

iso(year, month) == [k |-> "iso", y |-> year, m |-> month]

list_of(items) == [t |-> "list", v |-> items]

\* resume_data: a full resume with a skills list
ResumeFull ==
  [skills |-> list_of(<<S_Python, S_SQL, S_Teamwork>>),
   experience |-> <<[title |-> S_Python_Developer, start_date |-> iso(2020, 1),
                     end_date |-> iso(2023, 1)]>>,
   education |-> <<[degree |-> S_Bacharelado, field_of_study |-> S_Ciencia_da_Computacao]>>,
   title |-> S_Python_Developer]

\* resume_data: categorised skills, a current job (no end_date key), no education
ResumeDict ==
  [skills |-> [t |-> "dict",
               v |-> [technical |-> <<S_js, S_React, S_vs_code>>,
                      soft |-> <<S_Communication>>]],
   experience |-> <<[title |-> S_Frontend_Developer, start_date |-> iso(2019, 3)]>>]

\* resume_data: an experience entry stored with "end_date": null
ResumeNullEnd ==
  [skills |-> list_of(<<S_Python>>),
   experience |-> <<[title |-> S_Python_Developer, start_date |-> iso(2021, 5),
                     end_date |-> [k |-> "none"]]>>,
   title |-> S_Python_Developer]

\* resume_data: more skills than the job asks for, free-text dates
ResumeSurplus ==
  [skills |-> list_of(<<S_Python, S_Django, S_SQL, S_Docker, S_Cobol>>),
   experience |-> <<[title |-> S_Data_Analyst, start_date |-> [k |-> "text"],
                     end_date |-> [k |-> "text"]]>>,
   title |-> S_Data_Analyst]

\* resume_data == {}
ResumeEmpty == <<>>

Resumes == <<ResumeFull, ResumeDict, ResumeNullEnd, ResumeSurplus, ResumeEmpty>>

JobPython ==
  [title |-> S_Senior_Python_Developer, experience_level |-> S_Senior,
   skills |-> list_of(<<S_Python, S_Django, S_SQL>>),
   requirements |-> <<S_req_graduacao>>]

JobNoSkills ==
  [title |-> S_Data_Analyst, skills |-> list_of(<<>>)]

JobSoft ==
  [title |-> S_Frontend_Developer, experience_level |-> S_Pleno,
   skills |-> [t |-> "dict",
               v |-> [technical |-> <<S_Java, S_React>>,
                      soft |-> <<S_Teamwork, S_Leadership>>]],
   requirements |-> <<S_req_java>>]

\* job_data that is no dict: the Job row the matching tasks pass
JobRow == [class |-> "Job"]

Jobs == <<JobPython, JobNoSkills, JobSoft, JobRow>>

\* ---- what the delegate may answer

num(v) == [t |-> "num", v |-> v]

\* a response whose fenced JSON block parses to body
json_response(body) ==
  [body |-> body, score_text |-> <<>>, matching_text |-> <<>>, missing_text |-> <<>>,
   recom_text |-> <<>>]

\* a response with no parseable JSON block
text_response(score_text, matching, missing) ==
  [body |-> <<>>, score_text |-> score_text, matching_text |-> matching,
   missing_text |-> missing, recom_text |-> <<[template |-> "delegate"]>>]

\* the JSON object the match prompt asks for, with overall score s
full_body(s) ==
  [score_overall |-> num(s),
   score_details |-> [technical_skills |-> 85000, soft_skills |-> 70000,
                      experience |-> 75000, education |-> 90000,
                      job_title_match |-> 80000],
   matching_skills |-> <<S_Python, S_SQL>>,
   missing_skills |-> <<S_Django>>,
   strengths |-> <<[template |-> "delegate"]>>,
   recommendations |-> <<[template |-> "delegate"]>>]

\* overall scores a JSON answer may carry, in thousandths (0.005 .. 110, and -10)
JsonScores == <<-10000, 0, 5, 500, 1000, 1001, 75000, 100000, 110000>>

\* numbers score_pattern may capture (it captures no sign)
TextScores == <<0, 5, 10, 500, 1000, 75000, 100000, 250000>>

\* a JSON answer with sub-scores and skills nobody validated
body_unvalidated ==
  [score_overall |-> num(80000),
   score_details |-> [technical_skills |-> 150000, soft_skills |-> -5000,
                      experience |-> 75000, education |-> 90000, job_title |-> 80000],
   matching_skills |-> <<S_Python, S_Cobol>>,
   missing_skills |-> <<S_Python>>,
   recommendations |-> <<>>]

\* a JSON answer of another shape (the one the unit test's mock returns)
body_foreign ==
  [compatibility |-> [overall |-> 80000],
   analysis |-> [matching_skills |-> <<S_Python>>, missing_skills |-> <<S_Docker>>],
   recommendations |-> <<[template |-> "delegate"]>>]

\* a JSON answer whose score_overall float() rejects
body_bad_score ==
  [score_overall |-> [t |-> "str"],
   matching_skills |-> <<S_Cobol>>,
   missing_skills |-> <<>>]

Responses ==
  [i \in 1..Len(JsonScores) |-> json_response(full_body(JsonScores[i]))]
    \o <<json_response(body_unvalidated), json_response(body_foreign),
          json_response(body_bad_score), json_response([score_overall |-> num(85000)])>>
    \o [i \in 1..Len(TextScores) |->
          text_response(<<TextScores[i]>>, <<S_Python>>, <<S_Docker>>)]
    \o <<text_response(<<>>, <<>>, <<>>)>>
----------------------------------------------------------------------------
(* One caller of MatchService.calculate_match                              *)

MatchInit ==
  /\ pc = "idle"
  /\ client \in BOOLEAN
  /\ cur_resume = <<>>
  /\ cur_job = <<>>
  /\ use_claude = TRUE
  /\ send_attempt = 0
  /\ events = <<>>
  /\ cur_response = <<>>
  /\ returned = <<>>
  /\ raised = FALSE
  /\ path = "none"

\* calculate_match returns outcome.value or lets the exception through
Finish(branch, outcome) ==
  /\ pc' = "done"
  /\ path' = branch
  /\ raised' = (outcome.status = "raise")
  /\ returned' = IF outcome.status = "return" THEN outcome.value ELSE <<>>

\* control reaches `# Caso contrário, usamos o algoritmo interno`
FallBack ==
  /\ pc' = "internal"
  /\ UNCHANGED <<returned, raised, path>>

\* calculate_match(resume, job) takes its arguments; job_data.get exists
Accept(with_claude) ==
  /\ pc = "idle"
  /\ \E r \in 1..Len(Resumes), j \in 1..Len(Jobs) :
       /\ has_get(Jobs[j])
       /\ cur_resume' = Resumes[r]
       /\ cur_job' = Jobs[j]
  /\ use_claude' = with_claude
  /\ UNCHANGED <<client, skill_vars>>

\* calculate_match(resume, job) with a job that is no dict: the logger.info
\* line ahead of both `try:` blocks raises AttributeError
CallRaises ==
  /\ pc = "idle"
  /\ \E r \in 1..Len(Resumes), j \in 1..Len(Jobs) :
       /\ ~has_get(Jobs[j])
       /\ cur_resume' = Resumes[r]
       /\ cur_job' = Jobs[j]
  /\ use_claude' \in BOOLEAN
  /\ Finish("none", [status |-> "raise"])
  /\ UNCHANGED <<client, send_attempt, events, cur_response, skill_vars>>

\* calculate_match(resume, job) with a client: _send_request enters its loop
CallDelegated ==
  /\ client
  /\ Accept(TRUE)
  /\ pc' = "sending"
  /\ send_attempt' = 0
  /\ events' = <<>>
  /\ UNCHANGED <<cur_response, returned, raised, path>>

\* calculate_match(resume, job) without a client: _send_request raises before
\* any call, and control falls to the internal algorithm
CallNoClient ==
  /\ ~client
  /\ Accept(TRUE)
  /\ FallBack
  /\ UNCHANGED <<send_attempt, events, cur_response>>

\* calculate_match(resume, job, use_claude=False)
CallInternal ==
  /\ Accept(FALSE)
  /\ FallBack
  /\ UNCHANGED <<send_attempt, events, cur_response>>

\* client.messages.create raises RateLimitError: sleep, then the next iteration,
\* or, the loop being over, the final raise and the internal algorithm
DelegateRateLimited ==
  /\ pc = "sending"
  /\ events' = Append(events, [kind |-> "rate_limit", wait |-> rate_limit_wait(send_attempt)])
  /\ send_attempt' = send_attempt + 1
  /\ IF has_next_attempt(send_attempt)
     THEN UNCHANGED <<pc, returned, raised, path>>
     ELSE FallBack
  /\ UNCHANGED <<client, cur_resume, cur_job, use_claude, cur_response, skill_vars>>

\* client.messages.create raises another exception: re-raised on the last
\* send_attempt, otherwise sleep(retry_delay) and the next iteration
DelegateFails ==
  /\ pc = "sending"
  /\ IF reraise_error(send_attempt)
     THEN /\ events' = Append(events, [kind |-> "error", wait |-> 0])
          /\ send_attempt' = send_attempt
          /\ FallBack
     ELSE /\ events' = Append(events, [kind |-> "error", wait |-> retry_delay])
          /\ send_attempt' = send_attempt + 1
          /\ IF has_next_attempt(send_attempt)
             THEN UNCHANGED <<pc, returned, raised, path>>
             ELSE FallBack
  /\ UNCHANGED <<client, cur_resume, cur_job, use_claude, cur_response, skill_vars>>

\* client.messages.create returns a text: the delegate's record is returned, or
\* ClaudeService.calculate_match raises and control falls to the internal algorithm
DelegateResponds ==
  /\ pc = "sending"
  /\ \E i \in 1..Len(Responses), t \in 1..Len(Times) :
       LET taken(after) ==
             IF after.path = "ai"
             THEN Finish("ai", [status |-> "return", value |-> after.value])
             ELSE FallBack
       IN  /\ cur_response' = Responses[i]
           /\ taken(after_response(Responses[i], Times[t]))
  /\ events' = Append(events, [kind |-> "response", wait |-> 0])
  /\ UNCHANGED <<client, cur_resume, cur_job, use_claude, send_attempt, skill_vars>>

\* calculate_internal for request (Resumes[r], Jobs[j]) at Times[t], tabulated
InternalAnswers ==
  [r \in 1..Len(Resumes) |->
    [j \in 1..Len(Jobs) |->
      [t \in 1..Len(Times) |-> calculate_internal(Resumes[r], Jobs[j], Times[t])]]]

\* the second `try:` of calculate_match: the internal algorithm and its handler
InternalAlgorithm ==
  /\ pc = "internal"
  /\ \E r \in 1..Len(Resumes), j \in 1..Len(Jobs), t \in 1..Len(Times) :
       /\ Resumes[r] = cur_resume
       /\ Jobs[j] = cur_job
       /\ Finish("internal", InternalAnswers[r][j][t])
  /\ UNCHANGED <<client, cur_resume, cur_job, use_claude, send_attempt, events,
                 cur_response, skill_vars>>

\* the caller takes the record; the service is ready for the next request
Return ==
  /\ pc = "done"
  /\ pc' = "idle"
  /\ cur_resume' = <<>>
  /\ cur_job' = <<>>
  /\ use_claude' = TRUE
  /\ send_attempt' = 0
  /\ events' = <<>>
  /\ cur_response' = <<>>
  /\ returned' = <<>>
  /\ raised' = FALSE
  /\ path' = "none"
  /\ UNCHANGED <<client, skill_vars>>

DelegateStep == DelegateRateLimited \/ DelegateFails \/ DelegateResponds

MatchNext ==
  \/ CallRaises
  \/ CallDelegated
  \/ CallNoClient
  \/ CallInternal
  \/ DelegateStep
  \/ InternalAlgorithm
  \/ Return


----------------------------------------------------------------------------
(* A caller canonicalising a skill, then canonicalising the result again   *)

\* every alias key and every canonical name of the default map
KnownSkillStrings ==
  {DefaultSkillMap[i][1] : i \in 1..Len(DefaultSkillMap)}
    \cup {DefaultSkillMap[i][2] : i \in 1..Len(DefaultSkillMap)}

\* skill strings as a resume or a posting may spell them: misspelled names, a
\* name the map does not know
S_javascrpt == <<"j","a","v","a","s","c","r","p","t">>
S_pyhton == <<"P","y","h","t","o","n">>

FreeSkillStrings == {S_javascrpt, S_pyhton, S_Cobol}

SkillInit ==
  /\ skill_map = DefaultSkillMap
  /\ sk_pc = "idle"
  /\ sk_in = <<>>
  /\ sk_once = <<>>
  /\ sk_twice = <<>>

\* normalize_skill(s)
NormalizeOnce ==
  /\ sk_pc = "idle"
  /\ \E s \in KnownSkillStrings \cup FreeSkillStrings :
       /\ sk_in' = s
       /\ sk_once' = normalize_skill(skill_map, s)
  /\ sk_pc' = "once"
  /\ UNCHANGED <<skill_map, sk_twice, shared_vars, match_vars, ext_vars, batch_vars, score_vars>>

\* normalize_skill(normalize_skill(s))
NormalizeTwice ==
  /\ sk_pc = "once"
  /\ sk_twice' = normalize_skill(skill_map, sk_once)
  /\ sk_pc' = "twice"
  /\ UNCHANGED <<skill_map, sk_in, sk_once, shared_vars, match_vars, ext_vars, batch_vars, score_vars>>

SkillNext == NormalizeOnce \/ NormalizeTwice

----------------------------------------------------------------------------
(* The shared SkillMapper: add_skill_mapping callers and a reader thread   *)

\* self.skill_map[key] = value: an existing key keeps its place in the dict
map_set(map, key, value) ==
  IF map_has(map, key)
  THEN [i \in 1..Len(map) |-> IF map[i][1] = key THEN <<key, value>> ELSE map[i]]
  ELSE Append(map, <<key, value>>)

\* category in self.categories
has_category(cats, category) == \E c \in 1..Len(cats) : cats[c][1] = category

\* self.categories[category].add(normalized)
category_add(cats, category, normalized) ==
  [c \in 1..Len(cats) |->
     IF cats[c][1] = category THEN <<category, cats[c][2] \cup {normalized}>> ELSE cats[c]]

\* SkillMapper.add_skill_mapping: the skill_map it leaves
add_skill_mapping_map(map, variant, normalized) ==
  LET store(key) == IF key = <<>> \/ normalized = <<>> THEN map
                    ELSE map_set(map, key, normalized)
  IN  store(str_lower(str_strip(variant)))

\* SkillMapper.add_skill_mapping: the categories it leaves; "" is category None
add_skill_mapping_categories(cats, variant, normalized, category) ==
  IF str_lower(str_strip(variant)) = <<>> \/ normalized = <<>> THEN cats
  ELSE IF category # "" /\ has_category(cats, category)
       THEN category_add(cats, category, normalized)
       ELSE cats

\* add_skill_mapping calls made in one behaviour
MaxAdds == 2

S_JS_padded == <<" ","J","S"," ">>
S_cobol == <<"c","o","b","o","l">>
S_python3 == <<"p","y","t","h","o","n","3">>

\* arguments of add_skill_mapping: a known alias, a new one, an empty one
AddVariants == {S_JS_padded, S_cobol, <<" ">>}
AddCanonicals == {S_Java, S_Cobol, <<>>}
AddCategories == {"", "technical", "legacy"}

\* arguments of the reader's normalize_skill: an alias key, a string holding a
\* key, a string the default map has nothing for
ReadInputs == {S_js, S_python3, S_cobol}

SharedInit ==
  /\ self_categories = DefaultCategories
  /\ adds = 0
  /\ rd_pc = "idle"
  /\ rd_in = <<>>
  /\ rd_map0 = <<>>
  /\ rd_adds0 = 0
  /\ rd_iter = 0
  /\ rd_used = 0
  /\ rd_best = [score |-> r_int(0), match |-> <<>>]
  /\ rd_out = <<>>

\* a thread calls add_skill_mapping(variant, normalized, category)
AddSkillMapping ==
  /\ adds < MaxAdds
  /\ \E variant \in AddVariants, normalized \in AddCanonicals, category \in AddCategories :
       /\ skill_map' = add_skill_mapping_map(skill_map, variant, normalized)
       /\ self_categories' = add_skill_mapping_categories(self_categories, variant, normalized, category)
  /\ adds' = adds + 1
  /\ UNCHANGED <<sk_pc, sk_in, sk_once, sk_twice, reader_vars, match_vars, ext_vars, batch_vars, score_vars>>

\* the reader enters normalize_skill: the empty test, the exact lookup, else
\* `for key, value in self.skill_map.items()` creates the iterator
ReadStart ==
  /\ rd_pc = "idle"
  /\ \E skill \in ReadInputs :
       LET begin(normalized) ==
             IF map_has(skill_map, normalized)
             THEN /\ rd_pc' = "done"
                  /\ rd_out' = [status |-> "return", value |-> map_get(skill_map, normalized)]
             ELSE /\ rd_pc' = "iterating"
                  /\ rd_out' = <<>>
       IN  /\ rd_in' = skill
           /\ begin(str_lower(str_strip(skill)))
  /\ rd_map0' = skill_map
  /\ rd_adds0' = adds
  /\ rd_iter' = 0
  /\ rd_used' = Len(skill_map)
  /\ rd_best' = [score |-> r_int(0), match |-> <<>>]
  /\ UNCHANGED <<skill_map, sk_pc, sk_in, sk_once, sk_twice, self_categories, adds, match_vars, ext_vars, batch_vars, score_vars>>

\* one `next()` of the dict iterator and the loop body it feeds: RuntimeError
\* when the dict changed size, the end of the loop when the items are used up
ReadNext ==
  /\ rd_pc = "iterating"
  /\ IF Len(skill_map) # rd_used
     THEN /\ rd_pc' = "done"
          /\ rd_out' = [status |-> "raise", value |-> "RuntimeError"]
          /\ UNCHANGED <<rd_iter, rd_best>>
     ELSE IF rd_iter = Len(skill_map)
     THEN /\ rd_pc' = "done"
          /\ rd_out' = [status |-> "return",
                        value |-> IF rd_best.match # <<>> THEN rd_best.match
                                  ELSE capitalize_first(rd_in)]
          /\ UNCHANGED <<rd_iter, rd_best>>
     ELSE LET compete(item, match_score) ==
                IF r_lt(rd_best.score, match_score)
                THEN [score |-> match_score, match |-> item[2]]
                ELSE rd_best
              body(item) ==
                compete(item, partial_score(item[1], str_lower(str_strip(rd_in))))
          IN  /\ rd_best' = body(skill_map[rd_iter + 1])
              /\ rd_iter' = rd_iter + 1
              /\ UNCHANGED <<rd_pc, rd_out>>
  /\ UNCHANGED <<skill_map, sk_pc, sk_in, sk_once, sk_twice, self_categories, adds,
                 rd_in, rd_map0, rd_adds0, rd_used, match_vars, ext_vars, batch_vars, score_vars>>

\* the reader's caller takes the result; the thread may read again
ReadReturn ==
  /\ rd_pc = "done"
  /\ rd_pc' = "idle"
  /\ rd_out' = <<>>
  /\ UNCHANGED <<skill_map, sk_pc, sk_in, sk_once, sk_twice, self_categories, adds,
                 rd_in, rd_map0, rd_adds0, rd_iter, rd_used, rd_best, match_vars, ext_vars, batch_vars, score_vars>>

SharedNext == AddSkillMapping \/ ReadStart \/ ReadNext \/ ReadReturn

----------------------------------------------------------------------------
(* A caller scoring a pair twice with the internal algorithm               *)

S_JavaScript == <<"J","a","v","a","S","c","r","i","p","t">>
S_AWS == <<"A","W","S">>
S_Git == <<"G","i","t">>

\* resume_data: a job held since 2024-09 (no end_date key)
ResumeCurrentJob ==
  [skills |-> list_of(<<S_React, S_Teamwork>>),
   experience |-> <<[title |-> S_Frontend_Developer, start_date |-> iso(2024, 9)]>>,
   education |-> <<[degree |-> S_Bacharelado, field_of_study |-> S_Ciencia_da_Computacao]>>,
   title |-> S_Frontend_Developer]

\* resume_data: skills and education, no experience entries
ResumeNoExperience ==
  [skills |-> list_of(<<S_Python, S_Django>>),
   experience |-> <<>>,
   education |-> <<[degree |-> S_Bacharelado, field_of_study |-> S_Ciencia_da_Computacao]>>,
   title |-> S_Python_Developer]

\* resume_data and job_data with the skills of test_analyze_skills_match
ResumeTest ==
  [skills |-> list_of(<<S_Python, S_JavaScript, S_SQL, S_AWS, S_React>>)]

JobTest ==
  [title |-> S_Python_Developer,
   skills |-> list_of(<<S_Python, S_Django, S_SQL, S_Docker, S_Git>>)]

ScoreResumes == Resumes \o <<ResumeCurrentJob, ResumeNoExperience, ResumeTest>>

ScoreJobs == <<JobPython, JobNoSkills, JobSoft, JobTest>>

\* the items of a Python list, as a set
elements_of(list) == {list[i] : i \in 1..Len(list)}

\* the strings of job_data['skills'], of a list or of every category of a dict
job_skill_strings(job_data) ==
  LET strings(skills) ==
        IF skills.t = "list" THEN elements_of(skills.v)
        ELSE UNION {elements_of(skills.v[c]) : c \in DOMAIN skills.v}
  IN  strings(get(job_data, "skills", list_of(<<>>)))

\* resume_data with one more skill: appended to the skills list, to the
\* 'technical' list of categorised skills, or as the first skill of a resume
\* that has no 'skills' key
with_skill(resume_data, skill) ==
  LET more(skills) ==
        IF skills.t = "list" THEN list_of(Append(skills.v, skill))
        ELSE [t |-> "dict",
              v |-> [c \in DOMAIN skills.v \cup {"technical"} |->
                       IF c = "technical"
                       THEN Append(get(skills.v, "technical", <<>>), skill)
                       ELSE skills.v[c]]]
  IN  [k \in DOMAIN resume_data \cup {"skills"} |->
         IF k = "skills" THEN more(get(resume_data, "skills", list_of(<<>>)))
         ELSE resume_data[k]]

ScoreInit ==
  /\ q_pc = "idle"
  /\ q_resume = <<>>
  /\ q_job = <<>>
  /\ q_added = <<>>
  /\ q_first = <<>>
  /\ q_second = <<>>

\* calculate_match(resume, job, use_claude=False)
ScoreFirst ==
  /\ q_pc = "idle"
  /\ \E r \in 1..Len(ScoreResumes), j \in 1..Len(ScoreJobs), t \in 1..Len(Times) :
       /\ q_resume' = ScoreResumes[r]
       /\ q_job' = ScoreJobs[j]
       /\ q_first' = [now |-> Times[t],
                      out |-> calculate_internal(ScoreResumes[r], ScoreJobs[j], Times[t]).value]
  /\ q_pc' = "first"
  /\ UNCHANGED <<q_added, q_second, match_vars, ext_vars, batch_vars, skill_map, sk_pc, sk_in, sk_once, sk_twice,
                 shared_vars>>

\* the same call again, now or later
ScoreAgain ==
  /\ q_pc = "first"
  /\ \E t \in 1..Len(Times) :
       /\ ~(Times[t].y < q_first.now.y)
       /\ q_second' = [now |-> Times[t],
                       out |-> calculate_internal(q_resume, q_job, Times[t]).value]
  /\ q_pc' = "again"
  /\ UNCHANGED <<q_resume, q_job, q_added, q_first, match_vars, ext_vars, batch_vars, skill_map, sk_pc, sk_in,
                 sk_once, sk_twice, shared_vars>>

\* the call again at the same time, with a skill of the job added to the resume
ScoreWithSkill ==
  /\ q_pc = "first"
  /\ \E skill \in job_skill_strings(q_job) :
       /\ q_added' = skill
       /\ q_second' = [now |-> q_first.now,
                       out |-> calculate_internal(with_skill(q_resume, skill), q_job,
                                                  q_first.now).value]
  /\ q_pc' = "more"
  /\ UNCHANGED <<q_resume, q_job, q_first, match_vars, ext_vars, batch_vars, skill_map, sk_pc, sk_in,
                 sk_once, sk_twice, shared_vars>>

\* the caller goes on to another pair
ScoreReturn ==
  /\ q_pc \in {"again", "more"}
  /\ q_pc' = "idle"
  /\ q_resume' = <<>>
  /\ q_job' = <<>>
  /\ q_added' = <<>>
  /\ q_first' = <<>>
  /\ q_second' = <<>>
  /\ UNCHANGED <<match_vars, ext_vars, batch_vars, skill_map, sk_pc, sk_in, sk_once, sk_twice, shared_vars>>

ScoreNext == ScoreFirst \/ ScoreAgain \/ ScoreWithSkill \/ ScoreReturn


----------------------------------------------------------------------------
(* JobAnalyzer: the regular expressions over a posting's description        *)

NL == "\n"

\* the bullet character U+2022, one element of a text
BULLET == "U+2022"

\* \s
is_ws(c) == c \in {" ", NL}

\* \d
is_digit(c) == c \in {"0", "1", "2", "3", "4", "5", "6", "7", "8", "9"}

\* \w
is_word(c) ==
  \/ \E i \in 1..Len(UpperAlphabet) : c \in {UpperAlphabet[i], LowerAlphabet[i]}
  \/ is_digit(c)
  \/ c = "_"

\* [A-Z]
is_AZ(c) == \E i \in 1..26 : UpperAlphabet[i] = c

\* text[i:].startswith(needle), i counted from 1
starts_at(needle, text, i) ==
  /\ i + Len(needle) - 1 <= Len(text)
  /\ \A k \in 1..Len(needle) : text[i + k - 1] = needle[k]

\* \b between text[i-1] and text[i]
word_boundary(text, i) ==
  (i > 1 /\ is_word(text[i - 1])) # (i <= Len(text) /\ is_word(text[i]))

\* s.strip() where s may hold line breaks
strip_ws(s) ==
  LET keep == {i \in 1..Len(s) : ~is_ws(s[i])}
  IN  IF keep = {} THEN <<>>
      ELSE SubSeq(s, CHOOSE i \in keep : \A j \in keep : i <= j,
                     CHOOSE i \in keep : \A j \in keep : i >= j)

\* the least and the greatest element of a non-empty set of integers
least(S) == CHOOSE x \in S : \A y \in S : x <= y
greatest(S) == CHOOSE x \in S : \A y \in S : x >= y

\* the end of the run of characters of class `extra` (\w, \s and the characters
\* of extra) that starts at s; s - 1 when text[s] is not of the class
run_end(text, s, extra) ==
  LET of_class(c) == is_word(c) \/ is_ws(c) \/ c \in extra
      stops == {k \in s..Len(text) : ~of_class(text[k])}
  IN  IF stops = {} THEN Len(text) ELSE least(stops) - 1

\* the captures <<s, e>> of  \b(?:label)[\s:]+([class]+)(?:\.|\n|$)  with the
\* label at i: one or more separators, then text[s..e] followed by '.', a line
\* break or the end
label_captures(text, i, label, extra) ==
  IF ~(word_boundary(text, i) /\ starts_at(label, text, i)) THEN {}
  ELSE LET after == i + Len(label)
           ends(s) == {e \in s..run_end(text, s, extra) :
                         e = Len(text) \/ text[e + 1] \in {".", NL}}
           starts == {s \in (after + 1)..Len(text) :
                        \A k \in after..(s - 1) : is_ws(text[k]) \/ text[k] = ":"}
       IN  UNION {{<<s, e>> : e \in ends(s)} : s \in starts}

\* re.search(regex_patterns[field], description): group(1).strip() of the
\* leftmost match (the first label that matches there, separators greedy, then
\* the capture greedy), <<>> with found FALSE when nothing matches
search_labelled(text, labels, extra) ==
  LET at(i) == {l \in 1..Len(labels) : label_captures(text, i, labels[l], extra) # {}}
      hits == {i \in 1..Len(text) : at(i) # {}}
      taken(found) ==
        LET s == greatest({c[1] : c \in found})
        IN  SubSeq(text, s, greatest({c[2] : c \in {d \in found : d[1] = s}}))
  IN  IF hits = {} THEN [found |-> FALSE]
      ELSE [found |-> TRUE,
            group |-> strip_ws(taken(label_captures(text, least(hits),
                                                    labels[least(at(least(hits)))], extra)))]

\* (?=\n\s*\n|\n\s*[A-Z]|\Z) at position p
block_ends(text, p) ==
  \/ p > Len(text)
  \/ /\ text[p] = NL
     /\ \E j \in (p + 1)..Len(text) :
          /\ \A k \in (p + 1)..(j - 1) : is_ws(text[k])
          /\ text[j] = NL \/ is_AZ(text[j])

\* re.search of  (?:header)[:\s]+([\s\S]+?)(?=\n\s*\n|\n\s*[A-Z]|\Z): the
\* separators greedy (giving one back when they reach the end), the capture the
\* shortest that is followed by a block end
search_block(text, headers) ==
  LET after(i, h) == i + Len(headers[h])
      seps_end(a) ==
        LET stops == {k \in a..Len(text) : ~(is_ws(text[k]) \/ text[k] = ":")}
        IN  IF stops = {} THEN Len(text) ELSE least(stops)
      matches(i, h) ==
        /\ starts_at(headers[h], text, i)
        /\ after(i, h) <= Len(text)
        /\ is_ws(text[after(i, h)]) \/ text[after(i, h)] = ":"
        /\ seps_end(after(i, h)) > after(i, h)
      at(i) == {h \in 1..Len(headers) : matches(i, h)}
      hits == {i \in 1..Len(text) : at(i) # {}}
      captured(s) == SubSeq(text, s, least({e \in s..Len(text) : block_ends(text, e + 1)}))
  IN  IF hits = {} THEN [found |-> FALSE]
      ELSE [found |-> TRUE,
            group |-> strip_ws(captured(seps_end(after(least(hits), least(at(least(hits)))))))]

\* text.split('\n')
RECURSIVE split_lines(_)
split_lines(text) ==
  LET breaks == {k \in 1..Len(text) : text[k] = NL}
  IN  IF breaks = {} THEN <<text>>
      ELSE <<SubSeq(text, 1, least(breaks) - 1)>>
             \o split_lines(SubSeq(text, least(breaks) + 1, Len(text)))

\* line.startswith('-') or ...(U+2022) or ...('*') or re.match(r'^\d+\.', line)
starts_with_marker(line) ==
  /\ line # <<>>
  /\ \/ line[1] \in {"-", BULLET, "*"}
     \/ \E k \in 2..Len(line) : line[k] = "." /\ \A d \in 1..(k - 1) : is_digit(line[d])

\* the line stripped with its marker left in place
without_marker_kept(line) == strip_ws(line)

\* re.sub(r'^[-<U+2022>*\d\.]+\s*', '', line).strip()
without_marker(line) ==
  LET stops == {k \in 1..Len(line) :
                  ~(line[k] \in {"-", BULLET, "*", "."} \/ is_digit(line[k]))}
  IN  IF stops = {} THEN <<>>
      ELSE strip_ws(SubSeq(line, least(stops), Len(line)))

\* JobAnalyzer._parse_list_items
_parse_list_items(text) ==
  LET lines == split_lines(text)
      item(line) ==
        IF line = <<>> THEN <<>>
        ELSE IF starts_with_marker(line)
        THEN (IF without_marker(line) # <<>> THEN <<without_marker(line)>> ELSE <<>>)
        ELSE <<line>>
      RECURSIVE items(_)
      items(i) == IF i > Len(lines) THEN <<>>
                  ELSE item(strip_ws(lines[i])) \o items(i + 1)
  IN  items(1)

\* JobAnalyzer._extract_bullet_points
_extract_bullet_points(text) ==
  LET lines == split_lines(text)
      item(line) ==
        IF line # <<>> /\ starts_with_marker(line) /\ Len(without_marker(line)) > 10
        THEN <<without_marker(line)>> ELSE <<>>
      RECURSIVE points(_)
      points(i) == IF i > Len(lines) THEN <<>>
                   ELSE item(strip_ws(lines[i])) \o points(i + 1)
  IN  points(1)

\* JobAnalyzer.technical_skills, the strings as written (regular expressions)
technical_skills ==
  <<
    <<"p","y","t","h","o","n">>, <<"j","a","v","a">>,
    <<"j","a","v","a","s","c","r","i","p","t">>, <<"t","y","p","e","s","c","r","i","p","t">>,
    <<"c","#">>, <<"c","\\","+","\\","+">>, <<"p","h","p">>, <<"r","u","b","y">>,
    <<"s","w","i","f","t">>, <<"k","o","t","l","i","n">>, <<"g","o">>, <<"r","u","s","t">>,
    <<"h","t","m","l">>, <<"c","s","s">>, <<"s","q","l">>, <<"n","o","s","q","l">>,
    <<"r","e","a","c","t">>, <<"a","n","g","u","l","a","r">>, <<"v","u","e">>,
    <<"n","o","d","e">>, <<"d","j","a","n","g","o">>, <<"f","l","a","s","k">>,
    <<"s","p","r","i","n","g">>, <<"a","s","p","\\",".","n","e","t">>,
    <<"l","a","r","a","v","e","l">>, <<"r","a","i","l","s">>, <<"e","x","p","r","e","s","s">>,
    <<"m","o","n","g","o","d","b">>, <<"p","o","s","t","g","r","e","s","q","l">>,
    <<"m","y","s","q","l">>, <<"o","r","a","c","l","e">>, <<"s","q","l","i","t","e">>,
    <<"r","e","d","i","s">>, <<"a","w","s">>, <<"a","z","u","r","e">>, <<"g","c","p">>,
    <<"d","o","c","k","e","r">>, <<"k","u","b","e","r","n","e","t","e","s">>,
    <<"j","e","n","k","i","n","s">>, <<"c","i","/","c","d">>, <<"g","i","t">>,
    <<"g","i","t","h","u","b">>, <<"g","i","t","l","a","b">>, <<"j","i","r","a">>,
    <<"s","c","r","u","m">>, <<"k","a","n","b","a","n">>, <<"a","g","i","l","e">>,
    <<"m","a","c","h","i","n","e"," ","l","e","a","r","n","i","n","g">>, <<"m","l">>,
    <<"a","i">>, <<"d","e","e","p"," ","l","e","a","r","n","i","n","g">>,
    <<"d","a","t","a"," ","s","c","i","e","n","c","e">>, <<"b","i","g"," ","d","a","t","a">>,
    <<"h","a","d","o","o","p">>, <<"s","p","a","r","k">>, <<"t","a","b","l","e","a","u">>,
    <<"p","o","w","e","r"," ","b","i">>, <<"e","x","c","e","l">>, <<"w","o","r","d">>,
    <<"p","o","w","e","r","p","o","i","n","t">>, <<"p","h","o","t","o","s","h","o","p">>,
    <<"i","l","l","u","s","t","r","a","t","o","r">>, <<"f","i","g","m","a">>,
    <<"s","k","e","t","c","h">>>>

\* JobAnalyzer.soft_skills
soft_skills ==
  <<
    <<"c","o","m","m","u","n","i","c","a","t","i","o","n">>,
    <<"t","e","a","m","w","o","r","k">>, <<"l","e","a","d","e","r","s","h","i","p">>,
    <<"p","r","o","b","l","e","m"," ","s","o","l","v","i","n","g">>,
    <<"c","r","i","t","i","c","a","l"," ","t","h","i","n","k","i","n","g">>,
    <<"d","e","c","i","s","i","o","n"," ","m","a","k","i","n","g">>,
    <<"t","i","m","e"," ","m","a","n","a","g","e","m","e","n","t">>,
    <<"o","r","g","a","n","i","z","a","t","i","o","n">>,
    <<"a","d","a","p","t","a","b","i","l","i","t","y">>,
    <<"f","l","e","x","i","b","i","l","i","t","y">>,
    <<"c","r","e","a","t","i","v","i","t","y">>,
    <<"e","m","o","t","i","o","n","a","l"," ","i","n","t","e","l","l","i","g","e","n","c","e">>,
    <<"c","o","n","f","l","i","c","t"," ","r","e","s","o","l","u","t","i","o","n">>,
    <<"n","e","g","o","t","i","a","t","i","o","n">>,
    <<"p","e","r","s","u","a","s","i","o","n">>,
    <<"c","o","l","l","a","b","o","r","a","t","i","o","n">>,
    <<"i","n","t","e","r","p","e","r","s","o","n","a","l">>,
    <<"t","r","a","b","a","l","h","o"," ","e","m"," ","e","q","u","i","p","e">>,
    <<"l","i","d","e","r","a","n","ç","a">>,
    <<"r","e","s","o","l","u","ç","ã","o"," ","d","e"," ","p","r","o","b","l","e","m","a","s">>,
    <<"p","e","n","s","a","m","e","n","t","o"," ","c","r","í","t","i","c","o">>,
    <<"t","o","m","a","d","a"," ","d","e"," ","d","e","c","i","s","ã","o">>,
    <<"g","e","s","t","ã","o"," ","d","e"," ","t","e","m","p","o">>,
    <<"o","r","g","a","n","i","z","a","ç","ã","o">>,
    <<"a","d","a","p","t","a","b","i","l","i","d","a","d","e">>,
    <<"f","l","e","x","i","b","i","l","i","d","a","d","e">>,
    <<"c","r","i","a","t","i","v","i","d","a","d","e">>,
    <<"i","n","t","e","l","i","g","ê","n","c","i","a"," ","e","m","o","c","i","o","n","a","l">>,
    <<"r","e","s","o","l","u","ç","ã","o"," ","d","e"," ","c","o","n","f","l","i","t","o","s">>,
    <<"n","e","g","o","c","i","a","ç","ã","o">>, <<"p","e","r","s","u","a","s","ã","o">>,
    <<"c","o","l","a","b","o","r","a","ç","ã","o">>,
    <<"i","n","t","e","r","p","e","s","s","o","a","l">>,
    <<"c","o","m","u","n","i","c","a","ç","ã","o">>,
    <<"p","r","o","a","t","i","v","i","d","a","d","e">>, <<"e","m","p","a","t","i","a">>,
    <<"r","e","s","i","l","i","ê","n","c","i","a">>>>

\* job_types of _extract_job_data, in the order of the dict
job_types ==
  <<
   <<<<"C","L","T">>,
     <<<<"c","l","t">>, <<"c","a","r","t","e","i","r","a"," ","a","s","s","i","n","a","d","a">>,
       <<"r","e","g","i","m","e"," ","c","l","t">>, <<"e","f","e","t","i","v","o">>>>>>,
   <<<<"P","J">>,
     <<<<"p","j">>, <<"p","e","s","s","o","a"," ","j","u","r","í","d","i","c","a">>,
       <<"r","e","g","i","m","e"," ","p","j">>, <<"c","n","p","j">>>>>>,
   <<<<"F","r","e","e","l","a","n","c","e">>,
     <<<<"f","r","e","e","l","a","n","c","e">>, <<"f","r","e","e","l","a">>,
       <<"p","r","o","j","e","t","o">>, <<"t","e","m","p","o","r","á","r","i","o">>>>>>,
   <<<<"E","s","t","á","g","i","o">>,
     <<<<"e","s","t","á","g","i","o">>, <<"e","s","t","a","g","i","á","r","i","o">>,
       <<"t","r","a","i","n","e","e">>, <<"e","s","t","u","d","a","n","t","e">>>>>>,
   <<<<"T","e","m","p","o"," ","i","n","t","e","g","r","a","l">>,
     <<<<"t","e","m","p","o"," ","i","n","t","e","g","r","a","l">>,
       <<"f","u","l","l"," ","t","i","m","e">>, <<"f","u","l","l","-","t","i","m","e">>,
       <<"4","0","h">>, <<"4","4","h">>>>>>,
   <<<<"M","e","i","o"," ","p","e","r","í","o","d","o">>,
     <<<<"m","e","i","o"," ","p","e","r","í","o","d","o">>,
       <<"p","a","r","t"," ","t","i","m","e">>, <<"p","a","r","t","-","t","i","m","e">>,
       <<"2","0","h">>, <<"3","0","h">>>>>>>>

\* experience_patterns of _extract_job_data, in the order of the dict
experience_patterns ==
  <<
   <<<<"E","s","t","á","g","i","o">>,
     <<<<"e","s","t","á","g","i","o">>, <<"e","s","t","a","g","i","á","r","i","o">>,
       <<"t","r","a","i","n","e","e">>, <<"e","s","t","u","d","a","n","t","e">>>>>>,
   <<<<"J","ú","n","i","o","r">>,
     <<<<"j","ú","n","i","o","r">>, <<"j","u","n","i","o","r">>, <<"j","r">>, <<"j","r",".">>,
       <<"i","n","i","c","i","a","n","t","e">>>>>>,
   <<<<"P","l","e","n","o">>,
     <<<<"p","l","e","n","o">>, <<"m","i","d","-","l","e","v","e","l">>,
       <<"i","n","t","e","r","m","e","d","i","á","r","i","o">>>>>>,
   <<<<"S","ê","n","i","o","r">>,
     <<<<"s","ê","n","i","o","r">>, <<"s","e","n","i","o","r">>, <<"s","r">>, <<"s","r",".">>,
       <<"e","s","p","e","c","i","a","l","i","s","t","a">>>>>>,
   <<<<"G","e","r","e","n","t","e">>,
     <<<<"g","e","r","e","n","t","e">>, <<"m","a","n","a","g","e","r">>,
       <<"c","o","o","r","d","e","n","a","d","o","r">>, <<"l","í","d","e","r">>,
       <<"g","e","s","t","o","r">>>>>>>>

----------------------------------------------------------------------------
(* JobAnalyzer._extract_job_data, _extract_skills and analyze              *)

\* d[key] = value on a dict
put(d, key, value) == [k \in DOMAIN d \cup {key} |-> IF k = key THEN value ELSE d[k]]

\* the value of the first entry of an ordered dict of keyword lists one of whose
\* keywords is in text; found FALSE when there is none
first_with_keyword(table, text) ==
  LET hits == {i \in 1..Len(table) :
                 \E k \in 1..Len(table[i][2]) : str_in(table[i][2][k], text)}
  IN  IF hits = {} THEN [found |-> FALSE]
      ELSE [found |-> TRUE, group |-> table[least(hits)][1]]

\* JobAnalyzer._extract_job_data(description) for a str description (the euro
\* sign of the salary pattern is in no text of this model)
_extract_job_data(description) ==
  LET location == search_labelled(description, <<<<"L","o","c","a","l">>, <<"L","o","c","a","t","i","o","n">>, <<"L","o","c","a","l","i","z","a","ç","ã","o">>>>, {",", "-"})
      salary == search_labelled(description, <<<<"S","a","l","á","r","i","o">>, <<"S","a","l","a","r","y">>, <<"R","e","m","u","n","e","r","a","ç","ã","o">>>>,
                                {"$", ".", ",", "R", "£", "-"})
      job_type == search_labelled(description, <<<<"T","i","p","o">>, <<"T","y","p","e">>, <<"R","e","g","i","m","e">>, <<"C","o","n","t","r","a","t","o">>>>, {"-"})
      experience == search_labelled(description, <<<<"E","x","p","e","r","i","ê","n","c","i","a">>, <<"E","x","p","e","r","i","e","n","c","e">>, <<"N","í","v","e","l">>>>, {"-"})
      education == search_labelled(description, <<<<"F","o","r","m","a","ç","ã","o">>, <<"E","d","u","c","a","t","i","o","n">>, <<"E","d","u","c","a","ç","ã","o">>>>, {"-"})
      requirements ==
        search_block(description,
                     <<<<"R","e","q","u","i","s","i","t","o","s">>, <<"R","e","q","u","i","r","e","m","e","n","t","s">>, <<"Q","u","a","l","i","f","i","c","a","ç","õ","e","s">>, <<"Q","u","a","l","i","f","i","c","a","t","i","o","n","s">>, <<"E","x","i","g","ê","n","c","i","a","s">>>>)
      benefits == search_block(description, <<<<"B","e","n","e","f","í","c","i","o","s">>, <<"B","e","n","e","f","i","t","s">>, <<"O","f","e","r","e","c","e","m","o","s">>, <<"W","e"," ","o","f","f","e","r">>>>)
      found_or(match, otherwise) == IF match.found THEN match ELSE otherwise
      with(d, key, match) == IF match.found THEN put(d, key, match.group) ELSE d
      listed(d, key, match) ==
        IF match.found THEN put(d, key, _parse_list_items(match.group)) ELSE d
      d1 == with(<<>>, "location", location)
      d2 == with(d1, "salary_range", salary)
      d3 == with(d2, "job_type",
                 found_or(job_type, first_with_keyword(job_types, str_lower(description))))
      d4 == with(d3, "experience_level",
                 found_or(experience,
                          first_with_keyword(experience_patterns, str_lower(description))))
      d5 == with(d4, "education_requirements", education)
      d6 == IF requirements.found
            THEN put(d5, "requirements", _parse_list_items(requirements.group))
            ELSE put(d5, "requirements", _extract_bullet_points(description))
  IN  listed(d6, "benefits", benefits)

\* the text a skill pattern matches: the pattern without its backslashes
unescaped(pattern) ==
  LET kept == {k \in 1..Len(pattern) : pattern[k] # "\\"}
      RECURSIVE from(_)
      from(k) == IF k > Len(pattern) THEN <<>>
                 ELSE (IF k \in kept THEN <<pattern[k]>> ELSE <<>>) \o from(k + 1)
  IN  from(1)

\* re.search(r'\b' + skill + r'\b', description_lower)
search_word(skill, description_lower) ==
  LET literal == unescaped(skill)
  IN  \E i \in 1..Len(description_lower) :
        /\ starts_at(literal, description_lower, i)
        /\ word_boundary(description_lower, i)
        /\ word_boundary(description_lower, i + Len(literal))

\* str.capitalize()
capitalize(s) ==
  IF s = <<>> THEN <<>> ELSE <<upper_char(s[1])>> \o str_lower(SubSeq(s, 2, Len(s)))

\* JobAnalyzer._extract_skills(description) for a str description
_extract_skills(description) ==
  LET RECURSIVE found_in(_, _, _)
      found_in(skills, i, description_lower) ==
        IF i > Len(skills) THEN <<>>
        ELSE (IF search_word(skills[i], description_lower)
              THEN <<capitalize(skills[i])>> ELSE <<>>)
               \o found_in(skills, i + 1, description_lower)
      of(description_lower) ==
        [t |-> "dict",
         v |-> [technical |-> found_in(technical_skills, 1, description_lower),
                soft |-> found_in(soft_skills, 1, description_lower)]]
  IN  of(str_lower(description))

\* ---- postings (job_data dicts); a description is [t |-> "str", v |-> text] or a
\* value of another type

text_of(chars) == [t |-> "str", v |-> chars]

DescriptionLabelled ==
  <<"L","o","c","a","t","i","o","n",":"," ","R","e","m","o","t","e","\n","R","e","q","u","i","r","e","m","e","n","t","s",":","\n","-"," ","P","y","t","h","o","n"," ","a","n","d"," ","D","j","a","n","g","o","\n","-"," ","S","Q","L","\n","\n","B","e","n","e","f","i","t","s",":"," ","h","e","a","l","t","h"," ","p","l","a","n">>

DescriptionPlain ==
  <<"S","e","n","i","o","r"," ","r","o","l","e","."," ","T","y","p","e",":"," ","C","L","T",".","\n","*"," ","S","t","r","o","n","g"," ","t","e","a","m","w","o","r","k"," ","o","n"," ","A","W","S">>

Descriptions == <<DescriptionLabelled, DescriptionPlain>>

\* a posting with nothing but title, company and description
PostingLabelled ==
  [title |-> <<"B","a","c","k","e","n","d"," ","D","e","v","e","l","o","p","e","r">>, company |-> <<"A","c","m","e">>,
   description |-> text_of(DescriptionLabelled)]

\* a posting that knows its skills and has an empty job_type
PostingKnown ==
  [title |-> <<"D","a","t","a"," ","E","n","g","i","n","e","e","r">>, job_type |-> <<>>,
   skills |-> list_of(<<S_Python>>), description |-> text_of(DescriptionPlain)]

\* a posting with description ''
PostingEmpty == [title |-> <<"I","n","t","e","r","n">>, description |-> text_of(<<>>)]

\* a posting whose description is a list of paragraphs, not a str
PostingParagraphs ==
  [title |-> <<"Q","A"," ","A","n","a","l","y","s","t">>,
   description |-> [t |-> "list", v |-> <<DescriptionPlain>>]]

Postings == <<PostingLabelled, PostingKnown, PostingEmpty, PostingParagraphs>>

\* what ClaudeService.parse_job_post gives for a posting: it raises, or returns
\* the delegate's JSON object (before the posting's own keys are added)
ParseJobPostOutcomes ==
  <<[status |-> "raise"],
    [status |-> "return",
     result |-> [title |-> <<"S","o","f","t","w","a","r","e"," ","E","n","g","i","n","e","e","r">>, location |-> <<"R","e","c","i","f","e">>,
                 skills |-> list_of(<<S_Python, S_Docker>>)]]>>

\* _extract_job_data and _extract_skills of the descriptions, tabulated
ExtractedJobData == [d \in 1..Len(Descriptions) |-> _extract_job_data(Descriptions[d])]

ExtractedSkills == [d \in 1..Len(Descriptions) |-> _extract_skills(Descriptions[d])]

description_index(description) ==
  CHOOSE d \in 1..Len(Descriptions) : Descriptions[d] = description

\* `for key, value in job_data.items(): if key not in result: result[key] = value`
preserve_original(result, job_data) ==
  [k \in DOMAIN result \cup DOMAIN job_data |->
     IF k \in DOMAIN result THEN result[k] ELSE job_data[k]]

\* the loop over extracted_data.items(): a key is filled when the posting has
\* none or an empty one
fill_missing(analyzed_job, extracted_data) ==
  [k \in DOMAIN analyzed_job \cup DOMAIN extracted_data |->
     IF k \in DOMAIN extracted_data
        /\ (k \notin DOMAIN analyzed_job \/ analyzed_job[k] = <<>>)
     THEN extracted_data[k] ELSE analyzed_job[k]]

\* the internal algorithm of analyze, the body of its second `try:`;
\* re.search raises TypeError on a description that is no str
analyze_internal(job_data, now) ==
  LET description == job_data.description
      with_skills(analyzed_job) ==
        IF "skills" \notin DOMAIN analyzed_job \/ analyzed_job.skills.v = <<>>
        THEN put(analyzed_job, "skills", ExtractedSkills[description_index(description.v)])
        ELSE analyzed_job
  IN  IF description.t # "str"
      THEN [status |-> "raise", error |-> "expected string or bytes-like object"]
      ELSE [status |-> "return",
            value |-> put(with_skills(fill_missing(job_data,
                                        ExtractedJobData[description_index(description.v)])),
                          "analyzed_at", now)]

\* an analyze whose handler returns the posting without the 'error' key
analyze_silent(job_data, with_claude, claude_service, parsed, now) ==
  LET description == get(job_data, "description", text_of(<<>>))
      internal(outcome) ==
        IF outcome.status = "return"
        THEN [status |-> "return", value |-> outcome.value, job_data |-> job_data]
        ELSE [status |-> "return", value |-> job_data, job_data |-> job_data]
  IN  IF ~has_get(job_data) THEN [status |-> "raise", error |-> "AttributeError"]
      ELSE IF description.v = <<>>
      THEN [status |-> "return",
            value |-> [error |-> "Descrição da vaga está vazia", original_data |-> job_data],
            job_data |-> job_data]
      ELSE IF with_claude /\ claude_service /\ parsed.status = "return"
      THEN [status |-> "return",
            value |-> preserve_original(parsed.result, job_data),
            job_data |-> job_data]
      ELSE internal(analyze_internal(job_data, now))

\* JobAnalyzer.analyze(job_data, use_claude=with_claude) on an analyzer with or without a
\* claude_service, parse_job_post giving `parsed` and the clock `now`:
\* [status, value |-> what is returned, job_data |-> the caller's dict afterwards]
analyze(job_data, with_claude, claude_service, parsed, now) ==
  LET description == get(job_data, "description", text_of(<<>>))
      internal(outcome) ==
        IF outcome.status = "return"
        THEN [status |-> "return", value |-> outcome.value, job_data |-> job_data]
        ELSE [status |-> "return",
              value |-> put(job_data, "error", outcome.error),
              job_data |-> put(job_data, "error", outcome.error)]
  IN  IF ~has_get(job_data) THEN [status |-> "raise", error |-> "AttributeError"]
      ELSE IF description.v = <<>>
      THEN [status |-> "return",
            value |-> [error |-> "Descrição da vaga está vazia", original_data |-> job_data],
            job_data |-> job_data]
      ELSE IF with_claude /\ claude_service /\ parsed.status = "return"
      THEN [status |-> "return",
            value |-> preserve_original(parsed.result, job_data),
            job_data |-> job_data]
      ELSE internal(analyze_internal(job_data, now))

----------------------------------------------------------------------------
(* JobAnalyzer.analyze_job_batch                                           *)

\* the longest job_list a caller passes
MaxBatch == 3

\* the lists of at most n postings
RECURSIVE job_lists(_)
job_lists(n) ==
  IF n = 0 THEN {<<>>}
  ELSE LET shorter == job_lists(n - 1)
       IN  shorter \cup {Append(list, Postings[p]) :
                           list \in {l \in shorter : Len(l) = n - 1},
                           p \in 1..Len(Postings)}

BatchInit ==
  /\ b_pc = "idle"
  /\ b_in = <<>>
  /\ b_list = <<>>
  /\ b_use_claude = FALSE
  /\ b_service = FALSE
  /\ b_calls = <<>>
  /\ b_out = <<>>

\* analyze_job_batch(job_list, use_claude) is called: analyzed_jobs = []
BatchStart ==
  /\ b_pc = "idle"
  /\ \E job_list \in job_lists(MaxBatch), flag \in BOOLEAN, service \in BOOLEAN :
       /\ b_in' = job_list
       /\ b_list' = job_list
       /\ b_use_claude' = flag
       /\ b_service' = service
  /\ b_pc' = "loop"
  /\ b_calls' = <<>>
  /\ b_out' = <<>>
  /\ UNCHANGED <<match_vars, ext_vars, skill_map, sk_pc, sk_in, sk_once, sk_twice, shared_vars,
                 score_vars>>

\* the outcomes parse_job_post can have: one (never asked) unless analyze reaches it
asked_outcomes(with_claude, claude_service) ==
  IF with_claude /\ claude_service THEN 1..Len(ParseJobPostOutcomes) ELSE {1}

\* one iteration of `for job_data in job_list`: analyze, append; when analyze
\* raises, the handler writes 'error' into the posting and appends the posting
BatchStep ==
  /\ b_pc = "loop"
  /\ Len(b_out) < Len(b_list)
  /\ \E a \in asked_outcomes(b_use_claude, b_service), t \in 1..Len(Times) :
       LET job_data == b_list[Len(b_out) + 1]
           taken(analyzed) ==
             IF analyzed.status = "return"
             THEN /\ b_out' = Append(b_out, analyzed.value)
                  /\ b_list' = [b_list EXCEPT ![Len(b_out) + 1] = analyzed.job_data]
             ELSE /\ b_out' = Append(b_out, put(job_data, "error", analyzed.error))
                  /\ b_list' = [b_list EXCEPT ![Len(b_out) + 1] =
                                  put(job_data, "error", analyzed.error)]
       IN  /\ taken(analyze(job_data, b_use_claude, b_service,
                            ParseJobPostOutcomes[a], Times[t]))
           /\ b_calls' = Append(b_calls, [answer |-> a, now |-> t])
  /\ UNCHANGED <<b_pc, b_in, b_use_claude, b_service>>
  /\ UNCHANGED <<match_vars, ext_vars, skill_map, sk_pc, sk_in, sk_once, sk_twice, shared_vars,
                 score_vars>>

\* the loop is over: return analyzed_jobs
BatchReturn ==
  /\ b_pc = "loop"
  /\ Len(b_out) = Len(b_list)
  /\ b_pc' = "done"
  /\ UNCHANGED <<b_in, b_list, b_use_claude, b_service, b_calls, b_out>>
  /\ UNCHANGED <<match_vars, ext_vars, skill_map, sk_pc, sk_in, sk_once, sk_twice, shared_vars,
                 score_vars>>

\* the caller is done with the result
BatchForget ==
  /\ b_pc = "done"
  /\ b_pc' = "idle"
  /\ b_in' = <<>> /\ b_list' = <<>> /\ b_calls' = <<>> /\ b_out' = <<>>
  /\ b_use_claude' = FALSE /\ b_service' = FALSE
  /\ UNCHANGED <<match_vars, ext_vars, skill_map, sk_pc, sk_in, sk_once, sk_twice, shared_vars,
                 score_vars>>

BatchNext == BatchStart \/ BatchStep \/ BatchReturn \/ BatchForget

----------------------------------------------------------------------------
(* A caller of JobAnalyzer._extract_job_data on descriptions that hold a    *)
(* "Requirements:" block of bulleted lines                                  *)

\* the most bulleted lines a block of the model has
MaxLines == 3

\* the texts a bulleted line may carry
LineTexts ==
  <<<<"P","y","t","h","o","n"," ","a","n","d"," ","D","j","a","n","g","o">>, <<"S","Q","L">>, <<"3"," ","y","e","a","r","s"," ","o","f"," ","e","x","p","e","r","i","e","n","c","e">>, <<"T","e","a","m"," ","p","l","a","y","e","r">>>>

\* what stands before the block and after it
BlockPrefixes == <<<<>>, <<"L","o","c","a","t","i","o","n",":"," ","R","e","m","o","t","e","\n">>>>

BlockSuffixes == <<<<>>, <<"\n","\n","B","e","n","e","f","i","t","s",":"," ","h","e","a","l","t","h"," ","p","l","a","n">>, <<"\n","A","p","p","l","y"," ","n","o","w">>>>

MarkerStyles == {"dash", "bullet", "star", "ordinal"}

Digits == <<"1", "2", "3", "4", "5", "6", "7", "8", "9">>

\* the marker that opens line k in a list of the style
marker(style, k) ==
  CASE style = "dash" -> <<"-">>
    [] style = "bullet" -> <<BULLET>>
    [] style = "star" -> <<"*">>
    [] style = "ordinal" -> <<Digits[k], ".">>

\* n line texts, taken in turn from LineTexts beginning after the first `shift`
line_texts(shift, n) ==
  [k \in 1..n |-> LineTexts[((shift + k - 1) % Len(LineTexts)) + 1]]

\* the block: the label, then one marked line per text
RECURSIVE marked_lines(_, _, _)
marked_lines(style, texts, k) ==
  IF k > Len(texts) THEN <<>>
  ELSE <<NL>> \o marker(style, k) \o <<" ">> \o texts[k] \o marked_lines(style, texts, k + 1)

requirements_block(style, texts) == <<"R","e","q","u","i","r","e","m","e","n","t","s",":">> \o marked_lines(style, texts, 1)

RequireInit ==
  /\ e_pc = "idle"
  /\ e_description = <<>>
  /\ e_lines = <<>>
  /\ e_extracted = <<>>

\* extracted_data = self._extract_job_data(description)
RequireExtract ==
  /\ e_pc = "idle"
  /\ \E style \in MarkerStyles, n \in 1..MaxLines, shift \in 0..(Len(LineTexts) - 1),
        p \in 1..Len(BlockPrefixes), s \in 1..Len(BlockSuffixes) :
       LET extracted(description) ==
             /\ e_description' = description
             /\ e_extracted' = _extract_job_data(description)
       IN  /\ e_lines' = line_texts(shift, n)
           /\ extracted(BlockPrefixes[p] \o requirements_block(style, line_texts(shift, n))
                          \o BlockSuffixes[s])
  /\ e_pc' = "done"
  /\ UNCHANGED <<match_vars, core_vars, rec_vars, repo_vars, seg_vars>>

\* the caller goes on to another description
RequireReturn ==
  /\ e_pc = "done"
  /\ e_pc' = "idle"
  /\ e_description' = <<>>
  /\ e_lines' = <<>>
  /\ e_extracted' = <<>>
  /\ UNCHANGED <<match_vars, core_vars, rec_vars, repo_vars, seg_vars>>

RequireNext == RequireExtract \/ RequireReturn

----------------------------------------------------------------------------
(* One caller of MatchService.generate_detailed_recommendations            *)

\* A delegate response text to the recommendations prompt is the record of what
\* the parsers find in it:
\*   body     the dict of the fenced JSON block, <<>> when there is none
\*   numbered the items recom_pattern finds in the sections of the text
\*   listed   the items of the lists extract_lists finds
\*   text     response_text.strip()
RecommendationResponses ==
  <<[body |-> [strengths |-> <<"s1">>, gaps |-> <<"g1">>, recommendations |-> <<"r1">>],
     numbered |-> <<>>, listed |-> <<>>, text |-> "json"],
    [body |-> [recommendations |-> <<"r1", "r2">>],
     numbered |-> <<>>, listed |-> <<>>, text |-> "json"],
    [body |-> <<>>,
     numbered |-> <<[category |-> "Recomendações", title |-> "t1", description |-> "d1"]>>,
     listed |-> <<[category |-> "items", description |-> "d1"]>>, text |-> "sections"],
    [body |-> <<>>, numbered |-> <<>>,
     listed |-> <<[category |-> "items", description |-> "d2"]>>, text |-> "list"],
    [body |-> <<>>, numbered |-> <<>>, listed |-> <<>>, text |-> "plain"]>>

\* ResponseParser.structure_recommendations
structure_recommendations(response_text) ==
  IF response_text.numbered # <<>> THEN response_text.numbered
  ELSE IF response_text.listed # <<>> THEN response_text.listed
  ELSE <<[category |-> "Geral", description |-> response_text.text]>>

\* ClaudeService.generate_application_recommendations, from the response on
recommendations_of(response_text) ==
  IF extract_json(response_text) # <<>> THEN extract_json(response_text)
  ELSE [recommendations |-> structure_recommendations(response_text),
        raw_response |-> response_text.text]

\* generate_detailed_recommendations: `if not self.claude_service`
service_unavailable == [error |-> "Serviço de recomendações não disponível"]

\* generate_detailed_recommendations: `except Exception as e`
generation_failed == [error |-> "Erro ao gerar recomendações: str(e)"]

RecommendInit ==
  /\ g_pc = "idle"
  /\ g_service = FALSE
  /\ g_client = FALSE
  /\ g_resume = <<>>
  /\ g_job = <<>>
  /\ g_attempt = 0
  /\ g_path = "none"
  /\ g_returned = <<>>

\* the call takes its arguments, on a MatchService built with or without a
\* claude_service, whose client is set or not
RecommendAccept ==
  /\ g_pc = "idle"
  /\ \E r \in 1..Len(Resumes), j \in 1..Len(Jobs) :
       /\ g_resume' = Resumes[r]
       /\ g_job' = Jobs[j]
  /\ g_service' \in BOOLEAN
  /\ g_client' \in BOOLEAN
  /\ g_service' \/ ~g_client'
  /\ UNCHANGED <<match_vars, core_vars, req_vars, repo_vars, seg_vars>>

\* the call returns the record
RecommendFinish(how, record) ==
  /\ g_pc' = "done"
  /\ g_path' = how
  /\ g_returned' = record

\* no claude_service: the error record is returned at once
RecommendNoService ==
  /\ RecommendAccept
  /\ ~g_service'
  /\ RecommendFinish("unavailable", service_unavailable)
  /\ UNCHANGED g_attempt

\* a service without a client, or a job_data that is no dict: _send_request, or
\* the logger line before it, raises, and the handler returns the error record
RecommendRaises ==
  /\ RecommendAccept
  /\ g_service'
  /\ ~g_client' \/ ~has_get(g_job')
  /\ RecommendFinish(IF g_client' THEN "failed" ELSE "unavailable", generation_failed)
  /\ UNCHANGED g_attempt

\* a service with a client: _send_request enters its loop
RecommendDelegated ==
  /\ RecommendAccept
  /\ g_service' /\ g_client'
  /\ has_get(g_job')
  /\ g_pc' = "sending"
  /\ g_attempt' = 0
  /\ UNCHANGED <<g_path, g_returned>>

\* client.messages.create raises RateLimitError: the next iteration, or the
\* final raise and the error record
RecommendRateLimited ==
  /\ g_pc = "sending"
  /\ g_attempt' = g_attempt + 1
  /\ IF has_next_attempt(g_attempt)
     THEN UNCHANGED <<g_pc, g_path, g_returned>>
     ELSE RecommendFinish("failed", generation_failed)
  /\ UNCHANGED <<g_service, g_client, g_resume, g_job, match_vars, core_vars, req_vars, repo_vars, seg_vars>>

\* client.messages.create raises another exception: re-raised on the last
\* attempt, otherwise the next iteration
RecommendFails ==
  /\ g_pc = "sending"
  /\ IF reraise_error(g_attempt)
     THEN /\ g_attempt' = g_attempt
          /\ RecommendFinish("failed", generation_failed)
     ELSE /\ g_attempt' = g_attempt + 1
          /\ IF has_next_attempt(g_attempt)
             THEN UNCHANGED <<g_pc, g_path, g_returned>>
             ELSE RecommendFinish("failed", generation_failed)
  /\ UNCHANGED <<g_service, g_client, g_resume, g_job, match_vars, core_vars, req_vars, repo_vars, seg_vars>>

\* client.messages.create returns a text
RecommendResponds ==
  /\ g_pc = "sending"
  /\ \E i \in 1..Len(RecommendationResponses) :
       RecommendFinish("ai", recommendations_of(RecommendationResponses[i]))
  /\ UNCHANGED <<g_service, g_client, g_resume, g_job, g_attempt, match_vars, core_vars,
                 req_vars, repo_vars, seg_vars>>

\* the caller takes the record
RecommendReturn ==
  /\ g_pc = "done"
  /\ g_pc' = "idle"
  /\ g_resume' = <<>>
  /\ g_job' = <<>>
  /\ g_attempt' = 0
  /\ g_path' = "none"
  /\ g_returned' = <<>>
  /\ g_service' = FALSE
  /\ g_client' = FALSE
  /\ UNCHANGED <<match_vars, core_vars, req_vars, repo_vars, seg_vars>>

RecommendNext ==
  \/ RecommendNoService
  \/ RecommendRaises
  \/ RecommendDelegated
  \/ RecommendRateLimited
  \/ RecommendFails
  \/ RecommendResponds
  \/ RecommendReturn

----------------------------------------------------------------------------
(* MatchRepository and the matching tasks writing to table `matches`       *)

\* the workers that run at the same time
Workers == {1, 2}

UserIds == {1}

JobIds == {1, 2}

ResumeIds == {1, 2}

\* score and match_details a caller passes together
Scorings == {[score |-> 75, match_details |-> "details_75"],
             [score |-> 80, match_details |-> "details_80"]}

ConstructorArguments == {"user_id", "job_id", "resume_id", "score"}

\* a constructor that sets whatever keyword it is given
Match_any_keyword(data) ==
  [status |-> "return",
   value |-> [k \in DOMAIN data \cup {"status", "match_details"} |->
                IF k \in DOMAIN data THEN data[k] ELSE IF k = "status" THEN "new" ELSE "{}"]]

\* Match(**data): __init__(self, user_id, job_id, resume_id, score) takes these
\* four and raises TypeError on any other keyword
Match(data) ==
  IF DOMAIN data = ConstructorArguments
  THEN [status |-> "return",
        value |-> [user_id |-> data.user_id, job_id |-> data.job_id,
                   resume_id |-> data.resume_id, score |-> data.score,
                   status |-> "new", match_details |-> "{}"]]
  ELSE [status |-> "raise", error |-> "TypeError"]

\* get_match_by_user_and_job: the id of the first row of the pair, 0 for None
get_match_by_user_and_job(rows, user_id, job_id) ==
  LET found == {i \in 1..Len(rows) : rows[i].user_id = user_id /\ rows[i].job_id = job_id}
  IN  IF found = {} THEN 0 ELSE CHOOSE i \in found : \A j \in found : i <= j

\* BaseRepository.create: [status, value, rows]; an exception that is no
\* SQLAlchemyError leaves the method
create(rows, data) ==
  LET added(made) ==
        IF made.status = "raise" THEN [status |-> "raise", error |-> made.error, rows |-> rows]
        ELSE [status |-> "return", value |-> Len(rows) + 1, rows |-> Append(rows, made.value)]
  IN  added(Match(data))

\* create_or_update_match after the query: the branch on existing_match
create_or_update_match(rows, existing_match, call) ==
  IF existing_match # 0
  THEN [status |-> "return", value |-> existing_match,
        rows |-> [rows EXCEPT ![existing_match] =
                    [@ EXCEPT !.resume_id = call.resume_id, !.score = call.score,
                              !.match_details = call.match_details]]]
  ELSE create(rows, [user_id |-> call.user_id, job_id |-> call.job_id,
                     resume_id |-> call.resume_id, score |-> call.score,
                     match_details |-> call.match_details, status |-> "new"])

\* match_service.calculate_match(resume, job) as the tasks call it, with model
\* rows: the logger line's job_data.get raises AttributeError
calculate_match_of_rows ==
  IF has_get(JobRow) THEN [status |-> "return"] ELSE [status |-> "raise"]

\* one (job, user) iteration of a task after the query: [created, rows]
task_iteration(rows, existing_match, call) ==
  LET record(data) ==
        IF calculate_match_of_rows.status = "raise" THEN [created |-> 0, rows |-> rows]
        ELSE LET made == create(rows, data)
             IN  [created |-> IF made.status = "return" THEN 1 ELSE 0, rows |-> made.rows]
  IN  IF existing_match # 0 /\ call.op # "process_resume_matching"
      THEN [created |-> 0, rows |-> rows]
      ELSE record([user_id |-> call.user_id, job_id |-> call.job_id,
                   resume_id |-> call.resume_id, score |-> 0, match_details |-> "details",
                   status |-> "new"])

TaskNames == {"process_new_jobs_matching", "process_resume_matching"}

RepoInit ==
  /\ db_matches = <<>>
  /\ w_pc = [w \in Workers |-> "idle"]
  /\ w_call = [w \in Workers |-> <<>>]
  /\ w_existing = [w \in Workers |-> 0]
  /\ w_out = [w \in Workers |-> <<>>]

\* rows stored before the workers run, one for a pair that has none
\* (batch_create_matches with the constructor's four arguments)
RepoSeed ==
  /\ \A w \in Workers : w_pc[w] = "idle"
  /\ \E u \in UserIds, j \in JobIds, r \in ResumeIds :
       /\ get_match_by_user_and_job(db_matches, u, j) = 0
       /\ db_matches' = create(db_matches, [user_id |-> u, job_id |-> j, resume_id |-> r,
                                            score |-> 50]).rows
  /\ UNCHANGED <<w_pc, w_call, w_existing, w_out, match_vars, core_vars, req_vars, rec_vars, seg_vars>>

\* a call begins and runs its query get_match_by_user_and_job
RepoQuery(w) ==
  /\ w_pc[w] = "idle"
  /\ \E op \in TaskNames \cup {"create_or_update_match"},
        u \in UserIds, j \in JobIds, r \in ResumeIds, s \in Scorings :
       /\ op \in TaskNames => (r = 1 /\ s.score = 75)
       /\ w_call' = [w_call EXCEPT ![w] =
                       [op |-> op, user_id |-> u, job_id |-> j, resume_id |-> r,
                        score |-> s.score, match_details |-> s.match_details]]
       /\ w_existing' = [w_existing EXCEPT ![w] = get_match_by_user_and_job(db_matches, u, j)]
  /\ w_pc' = [w_pc EXCEPT ![w] = "checked"]
  /\ UNCHANGED <<db_matches, w_out, match_vars, core_vars, req_vars, rec_vars, seg_vars>>

\* generate_job_recommendations: MatchService has no find_recommended_jobs, the
\* AttributeError reaches the task's outer handler before any query
RepoRecommend(w) ==
  /\ w_pc[w] = "idle"
  /\ \E u \in UserIds :
       w_call' = [w_call EXCEPT ![w] = [op |-> "generate_job_recommendations", user_id |-> u]]
  /\ w_pc' = [w_pc EXCEPT ![w] = "done"]
  /\ w_out' = [w_out EXCEPT ![w] = [status |-> "return", value |-> [status |-> "error"]]]
  /\ UNCHANGED <<db_matches, w_existing, match_vars, core_vars, req_vars, rec_vars, seg_vars>>

\* create_or_update_match goes on after its query
RepoCreateOrUpdate(w) ==
  /\ w_pc[w] = "checked"
  /\ w_call[w].op = "create_or_update_match"
  /\ LET done(outcome) ==
           /\ db_matches' = outcome.rows
           /\ w_out' = [w_out EXCEPT ![w] =
                          IF outcome.status = "raise" THEN [status |-> "raise"]
                          ELSE [status |-> "return", value |-> outcome.value]]
     IN  done(create_or_update_match(db_matches, w_existing[w], w_call[w]))
  /\ w_pc' = [w_pc EXCEPT ![w] = "done"]
  /\ UNCHANGED <<w_call, w_existing, match_vars, core_vars, req_vars, rec_vars, seg_vars>>

\* a task goes on after its query
RepoTask(w) ==
  /\ w_pc[w] = "checked"
  /\ w_call[w].op \in TaskNames
  /\ LET done(outcome) ==
           /\ db_matches' = outcome.rows
           /\ w_out' = [w_out EXCEPT ![w] =
                          [status |-> "return",
                           value |-> [status |-> "completed", matches_created |-> outcome.created]]]
     IN  done(task_iteration(db_matches, w_existing[w], w_call[w]))
  /\ w_pc' = [w_pc EXCEPT ![w] = "done"]
  /\ UNCHANGED <<w_call, w_existing, match_vars, core_vars, req_vars, rec_vars, seg_vars>>

\* the caller takes the result
RepoReturn(w) ==
  /\ w_pc[w] = "done"
  /\ w_pc' = [w_pc EXCEPT ![w] = "idle"]
  /\ w_call' = [w_call EXCEPT ![w] = <<>>]
  /\ w_existing' = [w_existing EXCEPT ![w] = 0]
  /\ w_out' = [w_out EXCEPT ![w] = <<>>]
  /\ UNCHANGED <<db_matches, match_vars, core_vars, req_vars, rec_vars, seg_vars>>

RepoNext ==
  \/ RepoSeed
  \/ \E w \in Workers :
       \/ RepoQuery(w)
       \/ RepoRecommend(w)
       \/ RepoCreateOrUpdate(w)
       \/ RepoTask(w)
       \/ RepoReturn(w)

----------------------------------------------------------------------------
(* ResumeAnalyzer._split_into_sections                                      *)

\* a cased character
is_upper(c) == \E i \in 1..Len(UpperAlphabet) : UpperAlphabet[i] = c

is_lower(c) == \E i \in 1..Len(LowerAlphabet) : LowerAlphabet[i] = c

\* line.isupper(): a cased character, and none in lower case
str_isupper(line) ==
  /\ \E i \in 1..Len(line) : is_upper(line[i])
  /\ \A i \in 1..Len(line) : ~is_lower(line[i])

\* line.istitle(): upper case only after an uncased character, lower case only
\* after a cased one, and a cased character at all
str_istitle(line) ==
  LET cased(i) == i >= 1 /\ (is_upper(line[i]) \/ is_lower(line[i]))
  IN  /\ \E i \in 1..Len(line) : cased(i)
      /\ \A i \in 1..Len(line) :
           /\ is_upper(line[i]) => ~cased(i - 1)
           /\ is_lower(line[i]) => cased(i - 1)

\* _is_section_header: common_headers
common_headers ==
  <<<<"e","d","u","c","a","t","i","o","n">>, <<"f","o","r","m","a","t","i","o","n">>, <<"a","c","a","d","e","m","i","c">>, <<"f","o","r","m","a","ç","ã","o">>, <<"e","d","u","c","a","ç","ã","o">>, <<"a","c","a","d","ê","m","i","c","o">>, <<"e","x","p","e","r","i","e","n","c","e">>, <<"p","r","o","f","e","s","s","i","o","n","a","l">>, <<"w","o","r","k">>, <<"e","x","p","e","r","i","ê","n","c","i","a">>, <<"p","r","o","f","i","s","s","i","o","n","a","l">>, <<"t","r","a","b","a","l","h","o">>, <<"s","k","i","l","l","s">>, <<"c","o","m","p","e","t","e","n","c","i","e","s">>, <<"h","a","b","i","l","i","d","a","d","e","s">>, <<"c","o","m","p","e","t","ê","n","c","i","a","s">>, <<"c","o","n","h","e","c","i","m","e","n","t","o","s">>, <<"l","a","n","g","u","a","g","e","s">>, <<"i","d","i","o","m","a","s">>, <<"l","í","n","g","u","a","s">>, <<"p","e","r","s","o","n","a","l">>, <<"p","r","o","f","i","l","e">>, <<"p","e","r","f","i","l">>, <<"p","e","s","s","o","a","l">>, <<"o","b","j","e","c","t","i","v","e">>, <<"o","b","j","e","t","i","v","o">>, <<"s","u","m","m","a","r","y">>, <<"r","e","s","u","m","o">>, <<"q","u","a","l","i","f","i","c","a","t","i","o","n","s">>, <<"q","u","a","l","i","f","i","c","a","ç","õ","e","s">>, <<"c","e","r","t","i","f","i","c","a","t","i","o","n","s">>, <<"c","e","r","t","i","f","i","c","a","ç","õ","e","s">>, <<"p","r","o","j","e","c","t","s">>, <<"p","r","o","j","e","t","o","s">>, <<"a","w","a","r","d","s">>, <<"p","r","ê","m","i","o","s">>>>

\* ResumeAnalyzer._is_section_header
_is_section_header(line) ==
  IF Len(line) > 50 THEN FALSE
  ELSE IF str_isupper(line) \/ str_istitle(line) THEN TRUE
  ELSE IF line[Len(line)] = ":" THEN TRUE
  ELSE \E h \in 1..Len(common_headers) :
         str_in(common_headers[h], str_lower(line)) /\ Len(line) < 30

\* regex_patterns of ResumeAnalyzer that name a section type, in the order
\* _identify_section_type tries them: <<type, alternatives>>
section_patterns ==
  <<<<"education", <<<<"f","o","r","m","a","t","i","o","n">>, <<"e","d","u","c","a","t","i","o","n">>, <<"f","o","r","m","a","ç","ã","o">>, <<"e","d","u","c","a","ç","ã","o">>, <<"a","c","a","d","ê","m","i","c","o">>, <<"a","c","a","d","e","m","i","c">>>>>>,
    <<"experience", <<<<"e","x","p","e","r","i","e","n","c","e">>, <<"e","x","p","e","r","i","ê","n","c","i","a">>, <<"p","r","o","f","e","s","s","i","o","n","a","l">>, <<"p","r","o","f","i","s","s","i","o","n","a","l">>, <<"w","o","r","k">>, <<"t","r","a","b","a","l","h","o">>>>>>,
    <<"skills", <<<<"s","k","i","l","l","s">>, <<"h","a","b","i","l","i","d","a","d","e","s">>, <<"c","o","m","p","e","t","ê","n","c","i","a","s">>, <<"c","o","m","p","e","t","e","n","c","i","e","s">>, <<"c","o","n","h","e","c","i","m","e","n","t","o","s">>, <<"k","n","o","w","l","e","d","g","e">>>>>>,
    <<"languages", <<<<"l","a","n","g","u","a","g","e","s">>, <<"i","d","i","o","m","a","s">>, <<"l","í","n","g","u","a","s">>>>>>>>

\* ResumeAnalyzer._identify_section_type
_identify_section_type(header) ==
  LET found == first_with_keyword(section_patterns, str_lower(header))
  IN  IF found.found THEN found.group ELSE "other"

\* '\n'.join(items)
RECURSIVE join_lines(_)
join_lines(items) ==
  IF items = <<>> THEN <<>>
  ELSE IF Len(items) = 1 THEN items[1]
  ELSE items[1] \o <<NL>> \o join_lines(Tail(items))

\* the most lines a text of the model has
MaxTextLines == 4

\* the lines a text is made of
TextLines ==
  <<<<"m","a","r","i","a","@","e","x","a","m","p","l","e",".","c","o","m">>, <<"E","D","U","C","A","T","I","O","N">>, <<" "," ","b","s","c"," ","i","n"," ","c","o","m","p","u","t","i","n","g">>, <<"P","r","o","j","e","c","t","s">>,
    <<"b","u","i","l","t"," ","a"," ","w","e","b"," ","c","r","a","w","l","e","r">>, <<"A","w","a","r","d","s">>, <<>>>>

SegmentInit ==
  /\ s_pc = "idle"
  /\ s_text = <<>>
  /\ s_lines = <<>>
  /\ s_next = 0
  /\ s_current = ""
  /\ s_content = <<>>
  /\ s_sections = <<>>

\* _split_into_sections(text) down to the head of its loop
SegmentStart ==
  /\ s_pc = "idle"
  /\ \E n \in 1..MaxTextLines :
       \E chosen \in [1..n -> 1..Len(TextLines)] :
         LET split(text) == s_text' = text /\ s_lines' = split_lines(text)
         IN  split(join_lines([k \in 1..n |-> TextLines[chosen[k]]]))
  /\ s_pc' = "loop"
  /\ s_next' = 1
  /\ s_current' = ""
  /\ s_content' = <<>>
  /\ s_sections' = <<>>
  /\ UNCHANGED <<match_vars, core_vars, req_vars, rec_vars, repo_vars>>

\* one iteration of `for line in lines`
SegmentLine ==
  /\ s_pc = "loop"
  /\ s_next <= Len(s_lines)
  /\ LET body(line) ==
           IF line = <<>>
           THEN /\ s_content' = IF s_current # "" THEN Append(s_content, <<>>) ELSE s_content
                /\ UNCHANGED <<s_current, s_sections>>
           ELSE IF _is_section_header(line)
           THEN /\ s_sections' = IF s_current # ""
                                 THEN put(s_sections, s_current, join_lines(s_content))
                                 ELSE s_sections
                /\ s_current' = _identify_section_type(line)
                /\ s_content' = <<>>
           ELSE IF s_current # ""
           THEN /\ s_content' = Append(s_content, line)
                /\ UNCHANGED <<s_current, s_sections>>
           ELSE /\ s_sections' =
                     put(s_sections, "personal_info",
                         (IF "personal_info" \in DOMAIN s_sections
                          THEN s_sections["personal_info"] ELSE <<>>) \o line \o <<NL>>)
                /\ UNCHANGED <<s_current, s_content>>
     IN  body(strip_ws(s_lines[s_next]))
  /\ s_next' = s_next + 1
  /\ UNCHANGED <<s_pc, s_text, s_lines>>
  /\ UNCHANGED <<match_vars, core_vars, req_vars, rec_vars, repo_vars>>

\* after the loop: the last section is saved and sections returned
SegmentFinish ==
  /\ s_pc = "loop"
  /\ s_next > Len(s_lines)
  /\ s_sections' = IF s_current # ""
                   THEN put(s_sections, s_current, join_lines(s_content))
                   ELSE s_sections
  /\ s_pc' = "done"
  /\ UNCHANGED <<s_text, s_lines, s_next, s_current, s_content>>
  /\ UNCHANGED <<match_vars, core_vars, req_vars, rec_vars, repo_vars>>

\* the caller takes the sections
SegmentReturn ==
  /\ s_pc = "done"
  /\ s_pc' = "idle"
  /\ s_text' = <<>>
  /\ s_lines' = <<>>
  /\ s_next' = 0
  /\ s_current' = ""
  /\ s_content' = <<>>
  /\ s_sections' = <<>>
  /\ UNCHANGED <<match_vars, core_vars, req_vars, rec_vars, repo_vars>>

SegmentNext == SegmentStart \/ SegmentLine \/ SegmentFinish \/ SegmentReturn
----------------------------------------------------------------------------
Init ==
  /\ MatchInit /\ SkillInit /\ SharedInit /\ ScoreInit /\ BatchInit
  /\ RequireInit /\ RecommendInit /\ RepoInit /\ SegmentInit

\* skill strings being normalised, the match service idle
SpecSkill == Init /\ [][SkillNext]_vars

\* add_skill_mapping callers and a reader sharing one SkillMapper
SpecShared == Init /\ [][SharedNext]_vars

\* a caller scoring a pair twice with the internal algorithm
SpecScore == Init /\ [][ScoreNext]_vars

\* a caller of analyze_job_batch
SpecBatch == Init /\ [][BatchNext]_vars

\* a caller of _extract_job_data on descriptions with a requirements block
SpecRequire == Init /\ [][RequireNext]_vars

\* a caller of generate_detailed_recommendations
SpecRecommend == Init /\ [][RecommendNext]_vars

\* two workers calling create_or_update_match and the matching tasks
SpecRepo == Init /\ [][RepoNext]_vars

\* a caller of _split_into_sections
SpecSegment == Init /\ [][SegmentNext]_vars

\* match requests being served
Spec == Init /\ [][MatchNext]_vars

\* every call of the delegate returns or raises, every sleep ends, and the
\* internal algorithm runs to its end
FairSpec ==
  /\ Spec
  /\ WF_vars(DelegateStep)
  /\ WF_vars(InternalAlgorithm)

----------------------------------------------------------------------------
(* Properties of calculate_match and of the delegation loop                *)

\* a reported score, in thousandths of a point, lies in [0, 100]
in_range(v) == 0 <= v /\ v <= 100000

\* the fields of the match result JSON shape
MatchResultKeys ==
  {"score_overall", "score_details", "matching_skills", "missing_skills",
   "recommendations", "created_at"}

\* the fields of score_details in the match result JSON shape
ScoreDetailKeys == {"technical_skills", "soft_skills", "experience", "education", "job_title"}

\* calculate_match has returned a record for dict inputs
Returned == pc = "done" /\ has_get(cur_job) /\ ~raised

\* the elements of a list
elements(list) == {list[i] : i \in 1..Len(list)}

\* C1: for dict inputs, on every path (delegate answered, internal algorithm,
\* degraded), the returned record has score_overall in [0,100] and every
\* score_details entry in [0,100]; a record with 'error' has score_overall 0.
C1_ScoresInRange ==
  Returned =>
    /\ in_range(returned.score_overall)
    /\ "score_details" \in DOMAIN returned =>
         \A k \in DOMAIN returned.score_details : in_range(returned.score_details[k])
    /\ "error" \in DOMAIN returned => returned.score_overall = 0

\* C2: calculate_match never lets an exception escape to its caller, whatever
\* resume_data and job_data are and whatever the delegate or a sub-score does.
C2_NoExceptionEscapes == pc = "done" => ~raised

\* C3: when every call of the delegate fails, calculate_match returns a complete
\* match result (score_overall, the five score_details, matching_skills,
\* missing_skills, recommendations, created_at) built by the internal algorithm.
C3_CompleteResultWhenDelegateFails ==
  (pc = "done" /\ has_get(cur_job) /\ events # <<>>
     /\ \A i \in 1..Len(events) : events[i].kind # "response") =>
    /\ ~raised
    /\ path = "internal"
    /\ DOMAIN returned = MatchResultKeys
    /\ DOMAIN returned.score_details = ScoreDetailKeys

C6_BoundedRetriesThenReturn ==
  /\ [](Len(events) <= max_retries)
  /\ [](\A i \in 1..Len(events) :
          events[i].kind = "rate_limit" => events[i].wait = retry_delay * 2^(i - 1))
  /\ (pc = "sending" ~> pc = "done")

\* three rate-limit signals, waits 2, 4 and 8, and the call has returned
C6_Witness ==
  /\ pc = "done" /\ ~raised
  /\ Len(events) = max_retries
  /\ \A i \in 1..Len(events) : events[i].kind = "rate_limit"
  /\ events[3].wait = 8

\* C7: the returned record has the same keys on the delegated and on the
\* internal path: exactly the match result JSON shape.
C7_SameShapeOnEveryPath ==
  (Returned /\ "error" \notin DOMAIN returned) =>
    /\ DOMAIN returned = MatchResultKeys
    /\ DOMAIN returned.score_details = ScoreDetailKeys

\* the overall score the delegate reported: in the JSON block, else in the text
reported_score(response_text) ==
  IF response_text.body # <<>> THEN response_text.body.score_overall.v
  ELSE response_text.score_text[1]

\* the response reports an overall score that is a number
reports_score(response_text) ==
  IF response_text.body # <<>>
  THEN "score_overall" \in DOMAIN response_text.body
         /\ response_text.body.score_overall.t = "num"
  ELSE response_text.score_text # <<>>

\* C8: a reported overall score s becomes 100*s for s in 0-1, s for s above 1
\* and at most 100, 0 for s below 0, 100 for s above 100, on a JSON-parsed and
\* on a text-parsed response alike.
C8_ScoreNormalization ==
  (pc = "done" /\ path = "ai" /\ reports_score(cur_response)) =>
    returned.score_overall =
      LET s == reported_score(cur_response)
      IN  IF s < 0 THEN 0
          ELSE IF s <= 1000 THEN 100 * s
          ELSE IF s <= 100000 THEN s
          ELSE 100000

\* C9: matching_skills and missing_skills of a returned record are disjoint and
\* together are exactly the job's canonical technical and soft skills.
C9_SkillListsPartitionJobSkills ==
  (Returned /\ {"matching_skills", "missing_skills"} \subseteq DOMAIN returned) =>
    LET mapped_job_skills ==
          normalize_skills(DefaultSkillMap, DefaultCategories,
                           get(cur_job, "skills", [t |-> "list", v |-> <<>>]))
    IN  /\ elements(returned.matching_skills) \cap elements(returned.missing_skills) = {}
        /\ elements(returned.matching_skills) \cup elements(returned.missing_skills)
             = elements(mapped_job_skills.technical) \cup elements(mapped_job_skills.soft)

\* C10: normalize_skill(normalize_skill(s)) = normalize_skill(s) for every alias
\* key and every canonical name of the default skill map.
C10_NormalizeIdempotent == sk_pc = "twice" => sk_twice = sk_once

----------------------------------------------------------------------------
(* Properties of the shared skill map                                      *)

\* C11: after any sequence of add_skill_mapping calls, every alias key the map
\* had before them is still normalised to the canonical name it had before.
C11_KnownAliasesKeepCanonical ==
  \A i \in 1..Len(DefaultSkillMap) :
    normalize_skill(skill_map, DefaultSkillMap[i][1])
      = normalize_skill(DefaultSkillMap, DefaultSkillMap[i][1])

\* C12: a normalize_skill call that one add_skill_mapping call interleaves with
\* ends without an error, and with the result it has on the map as it was
\* before the addition or on the map as it is after it.
C12_ReadIsBeforeOrAfter ==
  (rd_pc = "done" /\ adds - rd_adds0 <= 1) =>
    /\ rd_out.status = "return"
    /\ rd_out.value \in {normalize_skill(rd_map0, rd_in), normalize_skill(skill_map, rd_in)}

----------------------------------------------------------------------------
(* Properties of the internal algorithm                                    *)

\* the record is a match result with its sub-scores, not the degraded one
has_details(record) == "score_details" \in DOMAIN record

\* C13: adding a skill of the job to the resume's skills, all else equal, never
\* decreases score_details.technical_skills of the internal algorithm's result.
C13_AddedJobSkillNeverLowersTechnical ==
  (q_pc = "more" /\ has_details(q_first.out)) =>
    /\ has_details(q_second.out)
    /\ q_second.out.score_details.technical_skills
         >= q_first.out.score_details.technical_skills

\* a job skill the resume lacked was added and the technical score rose
C13_Witness ==
  /\ q_pc = "more"
  /\ q_resume = ResumeFull /\ q_job = JobPython /\ q_added = S_Django
  /\ q_first.out.score_details.technical_skills = 66670
  /\ q_second.out.score_details.technical_skills = 100000

\* C14: two calls of calculate_match without the delegate on the same resume and
\* job return records equal in every field but created_at, whenever they are made.
C14_InternalResultIndependentOfTime ==
  q_pc = "again" =>
    /\ DOMAIN q_second.out = DOMAIN q_first.out
    /\ \A k \in DOMAIN q_first.out \ {"created_at"} : q_second.out[k] = q_first.out[k]

\* the canonical skills of a request's resume_data or job_data, by category
mapped_skills(data) ==
  normalize_skills(DefaultSkillMap, DefaultCategories, get(data, "skills", list_of(<<>>)))

\* job skills that hold, or are held by, some resume skill, whatever the case
matches(resume_skills, job_skills) ==
  Cardinality({i \in 1..Len(job_skills) :
                 \E r \in 1..Len(resume_skills) :
                    \/ str_in(str_lower(job_skills[i]), str_lower(resume_skills[r]))
                    \/ str_in(str_lower(resume_skills[r]), str_lower(job_skills[i]))})

\* the claimed skill sub-score, exact while the resume lists no more skills
\* than the job and a lower bound once the surplus bonus applies
is_skill_sub_score(score, resume_skills, job_skills) ==
  IF job_skills = <<>> THEN score = r_int(1)
  ELSE IF resume_skills = <<>> THEN score = r_int(0)
  ELSE IF Len(resume_skills) <= Len(job_skills)
  THEN score = rat(matches(resume_skills, job_skills), Len(job_skills))
  ELSE /\ r_le(rat(matches(resume_skills, job_skills), Len(job_skills)), score)
       /\ r_le(score, r_int(1))

\* C15: the skill sub-score of a category is 1.0 when the job lists no skill of
\* it, 0.0 when the job lists some and the resume none, else (before the surplus
\* bonus) the share of the job's skills that hold or are held by a resume skill,
\* case-insensitively; the result reports it as a percentage.
C15_SkillSubScore ==
  q_pc # "idle" =>
    LET reported(c) == IF c = "technical" THEN "technical_skills" ELSE "soft_skills"
        holds(c, score, resume_skills, job_skills) ==
          /\ is_skill_sub_score(score, resume_skills, job_skills)
          /\ has_details(q_first.out) =>
               q_first.out.score_details[reported(c)] = round2(r_mul(r_int(100), score))
        of_lists(c, resume_skills, job_skills) ==
          holds(c, _calculate_skills_match(resume_skills, job_skills),
                resume_skills, job_skills)
        of_mapped(resume_mapped, job_mapped) ==
          \A c \in {"technical", "soft"} : of_lists(c, resume_mapped[c], job_mapped[c])
    IN of_mapped(mapped_skills(q_resume), mapped_skills(q_job))

\* the skills of test_analyze_skills_match: 2 of the job's 5 skills, 40 %
C15_Witness ==
  /\ q_pc = "first"
  /\ q_resume = ResumeTest /\ q_job = JobTest
  /\ q_first.out.score_details.technical_skills = 40000
  /\ q_first.out.matching_skills = <<S_Python, S_SQL>>

\* C16: for a job with skills = [], the internal algorithm's result has
\* score_details.technical_skills = 100 and missing_skills = [], whatever the resume.
C16_NoJobSkillsFullTechnical ==
  (q_pc # "idle" /\ get(q_job, "skills", <<>>) = list_of(<<>>)) =>
    /\ has_details(q_first.out)
    /\ q_first.out.score_details.technical_skills = 100000
    /\ q_first.out.missing_skills = <<>>

\* C17: for a resume without experience entries the experience sub-score is 0,
\* with no relevance bonus, whatever experience level the job states.
C17_NoExperienceScoresZero ==
  (q_pc # "idle" /\ get(q_resume, "experience", <<>>) = <<>>) =>
    /\ \A t \in 1..Len(Times) :
         _calculate_experience_match(get(q_resume, "experience", <<>>), q_job, Times[t])
           = [raised |-> FALSE, score |-> r_int(0)]
    /\ has_details(q_first.out)
    /\ q_first.out.score_details.experience = 0

\* no experience entries against a job asking for 'Sênior'
C17_Witness ==
  /\ q_pc = "first"
  /\ q_resume = ResumeNoExperience /\ q_job = JobPython
  /\ q_first.out.score_details.experience = 0

\* no requirement string of the job holds an education keyword
no_education_keyword(job_data) ==
  \A i \in 1..Len(get(job_data, "requirements", <<>>)) :
    \A t \in 1..Len(education_terms) :
      ~str_in(education_terms[t], str_lower(get(job_data, "requirements", <<>>)[i]))

\* C20: when no requirement string of the job holds an education keyword the
\* education sub-score is 1.0 for every resume, one without education included.
C20_NoEducationKeywordFullScore ==
  (q_pc # "idle" /\ no_education_keyword(q_job)) =>
    _calculate_education_match(get(q_resume, "education", <<>>), q_job) = r_int(1)

\* the keys test_calculate_match expects under 'details'
DetailKeys == {"skills_match", "experience_match", "education_match", "recommendations"}

\* C19: when the delegate's calculate_match succeeds, the returned record has a
\* 'score' key equal to the delegate's overall value and a 'details' key holding
\* skills_match, experience_match, education_match and recommendations, the two
\* keys the matching tasks read.
C19_DelegatedResultHasScoreAndDetails ==
  (pc = "done" /\ path = "ai") =>
    /\ {"score", "details"} \subseteq DOMAIN returned
    /\ returned.score
         = parse_match_response(cur_response, returned.created_at).value.score_overall
    /\ DetailKeys \subseteq DOMAIN returned.details

\* what parse_job_post and the clock gave while posting i of the batch was analysed
outcome_of(i) == ParseJobPostOutcomes[b_calls[i].answer]
clock_of(i) == Times[b_calls[i].now]

\* the analysis of posting i reached the extraction and the extraction raised:
\* the description is not empty and no str, and the delegate gave no result
extraction_raised(i) ==
  /\ b_in[i].description.v # <<>>
  /\ b_in[i].description.t # "str"
  /\ ~(b_use_claude /\ b_service /\ outcome_of(i).status = "return")

\* C18: analyze_job_batch returns exactly one result per posting, in input
\* order; a posting whose extraction raises comes back with an 'error' field
\* attached to its own fields, and every posting is analysed exactly as it
\* would be if analysed alone, the ones after a failure included.
C18_BatchIsolatesFailures ==
  b_pc = "done" =>
    /\ Len(b_out) = Len(b_in)
    /\ \A i \in 1..Len(b_in) :
         /\ extraction_raised(i) =>
              /\ "error" \in DOMAIN b_out[i]
              /\ \A k \in DOMAIN b_in[i] : b_out[i][k] = b_in[i][k]
         /\ b_out[i] = analyze(b_in[i], b_use_claude, b_service,
                               outcome_of(i), clock_of(i)).value

\* a batch of three whose first posting fails in the extraction and whose
\* second is analysed in full
C18_Witness ==
  /\ b_pc = "done"
  /\ b_in = <<PostingParagraphs, PostingLabelled, PostingEmpty>>
  /\ "error" \in DOMAIN b_out[1]
  /\ "error" \notin DOMAIN b_out[2]
  /\ b_out[2].location = <<"R", "e", "m", "o", "t", "e">>
  /\ Len(b_out[2].requirements) = 2
  /\ b_out[3].original_data = PostingEmpty

\* the fields of posting i that are present and not empty
known_fields(i) ==
  {k \in DOMAIN b_in[i] :
     IF k \in {"skills", "description"} THEN b_in[i][k].v # <<>> ELSE b_in[i][k] # <<>>}

\* C21: analyze prefers already-known fields: every field of the input posting
\* that is present and not empty has the input's value in the returned job, on
\* the internal path and on the delegated path alike.
C21_KnownFieldsKept ==
  b_pc = "done" =>
    \A i \in 1..Len(b_in) :
      "original_data" \notin DOMAIN b_out[i] =>
        \A k \in known_fields(i) : k \in DOMAIN b_out[i] /\ b_out[i][k] = b_in[i][k]


\* C25: a failure inside one sub-score computation (an experience entry whose
\* end_date is null) does not abort the internal algorithm: the result is never
\* the error record, it carries the five sub-scores, the skill lists and the
\* recommendations.
C25_SubScoreFailureDoesNotAbort ==
  q_pc # "idle" =>
    /\ "error" \notin DOMAIN q_first.out
    /\ has_details(q_first.out)
    /\ ScoreDetailKeys \subseteq DOMAIN q_first.out.score_details
    /\ {"matching_skills", "missing_skills", "recommendations"} \subseteq DOMAIN q_first.out

\* the titles of the resume's experience entries
experience_titles(resume_data) ==
  LET titles(experience) ==
        {get(experience[i], "title", <<>>) : i \in 1..Len(experience)}
  IN  titles(get(resume_data, "experience", <<>>))

\* C29: the title sub-score compares the candidate's experience title with the
\* job title: a resume whose experience entries all carry the job's title gets a
\* job_title sub-score above the neutral 50.
C29_ExperienceTitleScoresAboveNeutral ==
  (q_pc # "idle" /\ has_details(q_first.out)
     /\ get(q_job, "title", <<>>) # <<>>
     /\ experience_titles(q_resume) = {get(q_job, "title", <<>>)}) =>
    q_first.out.score_details.job_title > 50000

\* a list without a repeated item
no_duplicates(list) == \A i, j \in 1..Len(list) : list[i] = list[j] => i = j

\* every string of the list is what normalize_skill returns for it
canonical_names(list) ==
  \A i \in 1..Len(list) : normalize_skill(DefaultSkillMap, list[i]) = list[i]

\* C28: every skill string in the skills lists of a job produced by the internal
\* structurer is a canonical name (a fixed point of normalize_skill), and no name
\* occurs twice in a list.
C28_StructuredSkillsCanonical ==
  (b_pc = "done" /\ ~(b_use_claude /\ b_service)) =>
    \A i \in 1..Len(b_in) :
      ("skills" \in DOMAIN b_out[i] /\ "skills" \notin known_fields(i)) =>
        \A c \in DOMAIN b_out[i].skills.v :
          no_duplicates(b_out[i].skills.v[c]) /\ canonical_names(b_out[i].skills.v[c])

\* the positions of the alias keys that contain the input or are contained in it
containing_keys(map, normalized) ==
  {i \in 1..Len(map) : str_in(map[i][1], normalized) \/ str_in(normalized, map[i][1])}

\* the first of the longest keys among the positions
longest_first(map, positions) ==
  CHOOSE i \in positions :
    \A j \in positions :
      Len(map[j][1]) < Len(map[i][1]) \/ (Len(map[j][1]) = Len(map[i][1]) /\ i <= j)

\* the positions of the alias keys whose similarity to the input exceeds 0.8
similar_keys(map, normalized) ==
  {i \in 1..Len(map) : r_lt(<<8, 10>>, sequence_ratio(map[i][1], normalized))}

\* the result the three stages give in strict priority
staged(map, skill, normalized, result) ==
  IF map_has(map, normalized) THEN result = map_get(map, normalized)
  ELSE IF containing_keys(map, normalized) # {}
       THEN result = map[longest_first(map, containing_keys(map, normalized))][2]
       ELSE IF similar_keys(map, normalized) # {}
            THEN \E i \in similar_keys(map, normalized) : result = map[i][2]
            ELSE result = capitalize_first(skill)

\* C26: normalize_skill applies its stages in strict priority: an exact alias hit
\* wins; otherwise the longest alias key contained in or containing the input
\* (first-seen on ties) decides and no similarity candidate overrides it; the
\* similarity stage decides only without a containment match; an input that
\* matches nothing is returned with its first letter capitalised.
C26_StagesInStrictPriority ==
  sk_pc # "idle" => staged(skill_map, sk_in, str_lower(str_strip(sk_in)), sk_once)

\* C22: for a description whose "Requirements:" block has n bulleted lines
\* (marker -, U+2022, * or an ordinal), _extract_job_data returns a requirements
\* list of exactly n entries, each the line's text without its marker.
C22_RequirementsOnePerBulletedLine ==
  e_pc = "done" =>
    /\ "requirements" \in DOMAIN e_extracted
    /\ Len(e_extracted.requirements) = Len(e_lines)
    /\ \A k \in 1..Len(e_lines) : e_extracted.requirements[k] = e_lines[k]

\* three lines marked with the bullet character, a benefits block after them
C22_Witness ==
  /\ e_pc = "done"
  /\ Len(e_lines) = 3
  /\ \E i \in 1..Len(e_description) : e_description[i] = BULLET
  /\ "benefits" \in DOMAIN e_extracted
  /\ e_extracted.requirements = e_lines

\* C23: when the delegate is unavailable or fails,
\* generate_detailed_recommendations still returns a record with strengths, gaps
\* and recommendations, never a record with only an error.
C23_RecommendationsFallBack ==
  (g_pc = "done" /\ g_path \in {"unavailable", "failed"}) =>
    /\ {"strengths", "gaps", "recommendations"} \subseteq DOMAIN g_returned
    /\ DOMAIN g_returned # {"error"}

\* the rows of the pair
rows_of(rows, user_id, job_id) ==
  {i \in 1..Len(rows) : rows[i].user_id = user_id /\ rows[i].job_id = job_id}

\* no pair has more than one row
one_row_per_pair(rows) ==
  \A u \in UserIds, j \in JobIds : Cardinality(rows_of(rows, u, j)) <= 1

\* what create_or_update_match of worker w leaves behind
created_or_updated(w, call, existing_match, out, rows_before, rows) ==
  /\ out.status = "return"
  /\ out.value \in 1..Len(rows)
  /\ rows[out.value].user_id = call.user_id /\ rows[out.value].job_id = call.job_id
  /\ rows[out.value].resume_id = call.resume_id
  /\ rows[out.value].score = call.score
  /\ rows[out.value].match_details = call.match_details
  /\ IF existing_match = 0
     THEN rows[out.value].status = "new" /\ Len(rows) = Len(rows_before) + 1
     ELSE out.value = existing_match /\ Len(rows) = Len(rows_before)

\* C24: create_or_update_match called for a pair without a match creates one
\* with the given resume, score and details and status 'new'; called for a pair
\* that has a match it updates that match (same id) and adds no row; afterwards
\* the pair has one row.
C24_CreatesThenUpdatesTheSameMatch ==
  [][\A w \in Workers :
       (w_pc[w] = "checked" /\ w_call[w].op = "create_or_update_match" /\ w_pc'[w] = "done"
          /\ \A v \in Workers \ {w} : w_pc[v] = "idle") =>
         /\ created_or_updated(w, w_call[w], w_existing[w], w_out'[w], db_matches, db_matches')
         /\ Cardinality(rows_of(db_matches', w_call[w].user_id, w_call[w].job_id)) = 1]_vars

stripped(i) == strip_ws(s_lines[i])

\* the positions of the section headers of the text
header_positions ==
  {i \in 1..Len(s_lines) : stripped(i) # <<>> /\ _is_section_header(stripped(i))}

\* the positions of the lines that carry content
content_positions ==
  {i \in 1..Len(s_lines) : stripped(i) # <<>> /\ ~_is_section_header(stripped(i))}

\* the section the line at position i belongs to: that of the most recent
\* header, personal_info before the first header
section_of(i) ==
  LET before == {h \in header_positions : h < i}
  IN  IF before = {} THEN "personal_info"
      ELSE _identify_section_type(stripped(greatest(before)))

\* the line is one of the lines of the block
in_block(line, block) ==
  \E k \in 1..Len(split_lines(block)) : split_lines(block)[k] = line

\* C27: the segmenter loses no content: every non-empty line that is no header
\* is a line of the returned block of its section (personal_info before the
\* first header, else the type of the most recent header), also when several
\* headers open the same section type.
C27_NoContentLost ==
  s_pc = "done" =>
    \A i \in content_positions :
      /\ section_of(i) \in DOMAIN s_sections
      /\ in_block(stripped(i), s_sections[section_of(i)])
====
